---- MODULE Spec2Model ----
(***************************************************************************)
(* State-machine model of the MicroScheduler `Scheduler` class             *)
(* (src/Scheduler.h lines 1-249, src/Scheduler.cpp lines 1-520).           *)
(*                                                                         *)
(* Number representation.  A uint32_t value is held as the integer with    *)
(* the same 32-bit two's-complement bit pattern (range -2^31 .. 2^31-1),   *)
(* so 2^32-50 is written -50.  Add32/Sub32 are the wrapping 32-bit         *)
(* operations; the cast (long)x of the 32-bit target is the identity on    *)
(* this representation, and "x == 0" tests the same bit pattern.           *)
(***************************************************************************)
EXTENDS Integers, Sequences, FiniteSets, TLC

\* ------------------------------------------------------------------------
\* Fixed-width arithmetic
\* ------------------------------------------------------------------------
MaxI32 == 2147483647
MinI32 == (-MaxI32) - 1
PID_MOD == 65536
MAX_TASKS == 124
MAX_WAIT == 60000

\* uint32_t a + b, wrapping at 2^32
Add32(a, b) ==
    IF b >= 0
    THEN IF a > MaxI32 - b THEN (a - MaxI32 - 1) + (b - MaxI32 - 1) ELSE a + b
    ELSE IF a < MinI32 - b THEN (a + MaxI32 + 1) + (b + MaxI32 + 1) ELSE a + b

Neg32(b) == IF b = MinI32 THEN MinI32 ELSE -b

\* uint32_t a - b, wrapping at 2^32; read as (long) it is the signed difference
Sub32(a, b) == Add32(a, Neg32(b))

\* a < b as uint32_t values
ULess(a, b) == IF (a < 0) = (b < 0) THEN a < b ELSE b < 0

\* the readiness test as an unsigned comparison: now >= executeAt
Reached_Unsigned(now, executeAt) == ~ULess(now, executeAt)

\* (long)(now - executeAt) >= 0
Reached(now, executeAt) == Sub32(now, executeAt) >= 0

\* PID_t p + 1 on 16 bits
IncPID(p) == (p + 1) % PID_MOD

\* ------------------------------------------------------------------------
\* Task record
\* ------------------------------------------------------------------------
\* what the stored std::function<void()> does when invoked
ActionKinds == {"nop", "add", "add0", "addStop", "stop", "stopAdd",
                "remove1", "remove2", "setInt1", "addSee"}
\* what the stored std::function<bool()> is: empty, constant, or a reading
\* of the environment
ConditionKinds == {"null", "true", "false", "env"}

\* indefinite() with < in place of <=
Indefinite_Strict(t) == t.conditionWait < 0

\* Task::indefinite
Indefinite(t) == t.conditionWait <= 0

\* Task::conditionTrue, with the environment reading e
ConditionTrue(t, e) ==
    /\ t.condition /= "null"
    /\ CASE t.condition = "true" -> TRUE
         [] t.condition = "false" -> FALSE
         [] OTHER -> e

\* setExecutionTime storing the time as it is, 0 included
SetExecutionTime_Plain(t, time) == [t EXCEPT !.executeAt = time]

\* Task::setExecutionTime
SetExecutionTime(t, time) == [t EXCEPT !.executeAt = IF time = 0 THEN 1 ELSE time]

\* A Task as the add methods build it (Scheduler.h struct Task).  onTimeout is
\* TRUE when a timeout callback was supplied.
NewTask(pid, act, onTimeout, repeat, interval, cond, condWait, postDelay) ==
    [PID |-> pid, action |-> act, onTimeout |-> onTimeout, repeat |-> repeat,
     interval |-> interval, condition |-> cond, conditionMet |-> FALSE,
     conditionWait |-> condWait, postConditionDelay |-> postDelay,
     executeAt |-> 0]

\* ------------------------------------------------------------------------
\* Scheduler object: a record S of the member variables, plus the outcome of
\* the call being modelled (ret: return value; arg: the PID removeTask or
\* setRepeatingTaskInterval was given; val: the interval
\* setRepeatingTaskInterval was given; fired: PIDs whose action was invoked,
\* in order; timeouts: PIDs onTimeout was invoked with, in order; inner: the
\* calls actions made to removeTask and setRepeatingTaskInterval and what they
\* returned, in order; probed: PIDs whose condition predicate was called;
\* atStop: PIDs stored when stop() was called).
\* ------------------------------------------------------------------------
PIDsOf(tasks) == {tasks[i].PID : i \in 1..Len(tasks)}

SeqToSet(q) == {q[i] : i \in 1..Len(q)}

\* std::find_if(tasks.begin(), tasks.end(), PID == pid): index of the first
\* match, 0 when there is none
FindByPID(tasks, pid) ==
    LET m == {i \in 1..Len(tasks) : tasks[i].PID = pid}
    IN  IF m = {} THEN 0 ELSE CHOOSE i \in m : \A j \in m : i <= j

\* the store after tasks.erase at every index of drop
EraseIndices(tasks, drop) ==
    LET tagged == [j \in 1..Len(tasks) |-> <<j, tasks[j]>>]
        kept   == SelectSeq(tagged, LAMBDA x : x[1] \notin drop)
    IN  [k \in 1..Len(kept) |-> kept[k][2]]

\* tasks.erase(it) for the first task with this PID, if any
EraseByPID(tasks, pid) == EraseIndices(tasks, {FindByPID(tasks, pid)})

\* for each ledger entry in turn, erase the first task with that PID: a task
\* goes when the ledger names its PID at least as often as that PID occurs
\* in the store up to and including the task
EraseAll(tasks, pids) ==
    LET before(j) == Cardinality({i \in 1..j : tasks[i].PID = tasks[j].PID})
        named(j)  == Cardinality({k \in 1..Len(pids) : pids[k] = tasks[j].PID})
        marked    == SeqToSet(pids)
    IN  EraseIndices(tasks, {j \in 1..Len(tasks) :
                               tasks[j].PID \in marked /\ before(j) <= named(j)})

\* clearMarkedForRemoval emptying the store instead of erasing the ledger's PIDs
ClearMarkedForRemoval_All(S) ==
    [S EXCEPT !.tasks = <<>>, !.tasksToRemove = <<>>]

\* Scheduler::clearMarkedForRemoval
ClearMarkedForRemoval(S) ==
    [S EXCEPT !.tasks = EraseAll(S.tasks, S.tasksToRemove),
              !.tasksToRemove = <<>>]

\* getAndIncrementPID without its collision scan
FreePID_NoScan(tasks, p) == p

RECURSIVE FreePID(_, _)
\* the do/while of getAndIncrementPID: step over every PID in use, skipping 0
FreePID(tasks, p) ==
    IF p \in PIDsOf(tasks)
    THEN FreePID(tasks, IF IncPID(p) = 0 THEN 1 ELSE IncPID(p))
    ELSE p

\* Scheduler::getAndIncrementPID: ret is the PID handed out, nextPID is
\* post-incremented on 16 bits
GetAndIncrementPID(S) ==
    LET start == IF S.nextPID = 0 THEN 1 ELSE S.nextPID
        free  == FreePID(S.tasks, start)
    IN  [S EXCEPT !.nextPID = IncPID(free), !.ret = free]

\* the capacity check off by one: taskCount() > MAX_TASKS
PushTask_OffByOne(S, act, onTimeout, repeat, interval, cond, condWait, postDelay) ==
    IF Len(S.tasks) > MAX_TASKS
    THEN [S EXCEPT !.ret = 0]
    ELSE LET P == GetAndIncrementPID(S)
             t == NewTask(P.ret, act, onTimeout, repeat, interval, cond,
                          condWait, postDelay)
         IN  [P EXCEPT !.tasks = Append(P.tasks, t)]

\* the PID taken before the capacity check
PushTask_PidFirst(S, act, onTimeout, repeat, interval, cond, condWait, postDelay) ==
    LET P == GetAndIncrementPID(S)
        t == NewTask(P.ret, act, onTimeout, repeat, interval, cond,
                     condWait, postDelay)
    IN  IF Len(S.tasks) >= MAX_TASKS
        THEN [P EXCEPT !.ret = 0]
        ELSE [P EXCEPT !.tasks = Append(P.tasks, t)]

\* the tail shared by the three add methods: capacity check, PID, push_back
PushTask(S, act, onTimeout, repeat, interval, cond, condWait, postDelay) ==
    IF Len(S.tasks) >= MAX_TASKS
    THEN [S EXCEPT !.ret = 0]
    ELSE LET P == GetAndIncrementPID(S)
             t == NewTask(P.ret, act, onTimeout, repeat, interval, cond,
                          condWait, postDelay)
         IN  [P EXCEPT !.tasks = Append(P.tasks, t)]

\* Scheduler::addTimedTask
AddTimedTask(S, act, delayMs, repeat, interval) ==
    PushTask(S, act, FALSE, IF S.sequentialMode THEN FALSE ELSE repeat,
             interval, "true", 0, delayMs)

\* Scheduler::addConditionalTask
AddConditionalTask(S, act, cond, conditionWaitMs, onTimeout) ==
    PushTask(S, act, onTimeout, FALSE, 0, cond, conditionWaitMs, 0)

\* Scheduler::addConditionalTimedTask
AddConditionalTimedTask(S, act, cond, postDelayMs, conditionWaitMs, onTimeout) ==
    PushTask(S, act, onTimeout, FALSE, 0, cond, conditionWaitMs, postDelayMs)

\* removeTask erasing the task at once instead of marking it
RemoveTask_Immediate(S, pid) ==
    IF FindByPID(S.tasks, pid) = 0
    THEN [S EXCEPT !.ret = FALSE]
    ELSE [S EXCEPT !.tasks = EraseByPID(S.tasks, pid),
                   !.tasksToRemove = Append(@, pid), !.ret = TRUE]

\* Scheduler::removeTask
RemoveTask(S, pid) ==
    IF FindByPID(S.tasks, pid) = 0
    THEN [S EXCEPT !.ret = FALSE]
    ELSE [S EXCEPT !.tasksToRemove = Append(@, pid), !.ret = TRUE]

\* setRepeatingTaskInterval without the inLoop test
SetRepeatingTaskInterval_InLoop(S, pid, interval) ==
    LET i == FindByPID(S.tasks, pid)
    IN  IF i = 0 \/ ~S.tasks[i].repeat
        THEN [S EXCEPT !.ret = FALSE]
        ELSE [S EXCEPT !.tasks[i].postConditionDelay = interval,
                       !.tasks[i].interval = interval,
                       !.tasks[i].executeAt = 0,
                       !.ret = TRUE]

\* Scheduler::setRepeatingTaskInterval
SetRepeatingTaskInterval(S, pid, interval) ==
    LET i == FindByPID(S.tasks, pid)
    IN  IF S.inLoop \/ i = 0 \/ ~S.tasks[i].repeat
        THEN [S EXCEPT !.ret = FALSE]
        ELSE [S EXCEPT !.tasks[i].postConditionDelay = interval,
                       !.tasks[i].interval = interval,
                       !.tasks[i].executeAt = 0,
                       !.ret = TRUE]

\* Scheduler::stop
Stop(S) ==
    [S EXCEPT !.will_stop = TRUE,
              !.tasksToRemove = @ \o [i \in 1..Len(S.tasks) |-> S.tasks[i].PID],
              !.atStop = @ \cup PIDsOf(S.tasks)]

\* Scheduler::setAndStartSequentialMode
SetAndStartSequentialMode(S, seq, now) ==
    [S EXCEPT !.sequentialMode = seq,
              !.lastSequentialFinishTime = IF seq THEN now ELSE @]

\* the interval an action passes to setRepeatingTaskInterval
InnerInterval == 50

\* the action's call op left the scheduler as R and returned R.ret to it
Saw(S, op, R) ==
    [R EXCEPT !.inner = Append(@, [op |-> op, ok |-> R.ret]), !.ret = S.ret]

\* Scheduler::taskCount
TaskCount(S) == Len(S.tasks)

\* what invoking a task's action does to the scheduler: the actions modelled
\* call back into the public API from inside loop(); remove1 and setInt1
\* name the task with PID 1, remove2 the task with PID 2; addSee reads
\* taskCount() before and after its addTimedTask and notes whether it grew
RunAction(S, act) ==
    CASE act = "add"     -> AddTimedTask(S, "nop", 10, FALSE, 0)
      [] act = "add0"    -> AddTimedTask(S, "nop", 0, FALSE, 0)
      [] act = "stop"    -> Stop(S)
      [] act = "addStop" -> Stop(AddTimedTask(S, "nop", 10, FALSE, 0))
      [] act = "stopAdd" -> AddTimedTask(Stop(S), "nop", 10, FALSE, 0)
      [] act = "remove1" -> Saw(S, "removeTask", RemoveTask(S, 1))
      [] act = "remove2" -> Saw(S, "removeTask", RemoveTask(S, 2))
      [] act = "addSee"  ->
           LET R == AddTimedTask(S, "nop", 10, FALSE, 0)
           IN  Saw(S, "taskCount", [R EXCEPT !.ret = TaskCount(R) > TaskCount(S)])
      [] act = "setInt1" -> Saw(S, "setRepeatingTaskInterval",
                                SetRepeatingTaskInterval(S, 1, InnerInterval))
      [] OTHER           -> S

\* MuxGuard::MuxGuard: taskENTER_CRITICAL, which nests
MuxEnter(S) == [S EXCEPT !.mux = @ + 1]

\* MuxGuard::~MuxGuard: taskEXIT_CRITICAL at the end of the guard's scope
MuxExit(S) == [S EXCEPT !.mux = @ - 1]

\* loop() calls the action act of task pid: the call is noted in fired, and
\* in ctx with inLoop and whether the critical section is held at that point
Invoke(S, pid, act) ==
    RunAction([S EXCEPT !.fired = Append(@, pid),
                        !.ctx = Append(@, [pid |-> pid, inLoop |-> S.inLoop,
                                           locked |-> S.mux > 0])],
              act)

\* ------------------------------------------------------------------------
\* loop(), parallel mode
\* ------------------------------------------------------------------------
\* first pass with the condition deadline set to now, conditionWait left out
ActivateTask_NoWait(t, now, e) ==
    IF t.executeAt /= 0 THEN t
    ELSE IF Indefinite(t)
         THEN IF ConditionTrue(t, e)
              THEN SetExecutionTime([t EXCEPT !.conditionMet = TRUE],
                                    Add32(now, t.postConditionDelay))
              ELSE t
         ELSE SetExecutionTime(t, now)

\* first pass: set up a task whose executeAt is still 0
ActivateTask(t, now, e) ==
    IF t.executeAt /= 0 THEN t
    ELSE IF Indefinite(t)
         THEN IF ConditionTrue(t, e)
              THEN SetExecutionTime([t EXCEPT !.conditionMet = TRUE],
                                    Add32(now, t.postConditionDelay))
              ELSE t
         ELSE SetExecutionTime(t, Add32(now, t.conditionWait))

\* a task without a condition is given the trivially true one
RepairCondition(t) ==
    IF t.condition = "null" THEN [t EXCEPT !.condition = "true"] ELSE t

\* second pass calling the predicate again for a task whose condition was
\* met, and taking conditionMet back when it is false
ClassifyTask_Unlatch(t, now, e) ==
    LET c == RepairCondition(t)
    IN  IF ~c.conditionMet /\ ConditionTrue(c, e)
        THEN SetExecutionTime([c EXCEPT !.conditionMet = TRUE],
                              Add32(now, c.postConditionDelay))
        ELSE [c EXCEPT !.conditionMet = ConditionTrue(c, e)]

\* second pass, the task as it is left in the store
ClassifyTask(t, now, e) ==
    LET c == RepairCondition(t)
    IN  IF ~c.conditionMet /\ ConditionTrue(c, e)
        THEN SetExecutionTime([c EXCEPT !.conditionMet = TRUE],
                              Add32(now, c.postConditionDelay))
        ELSE c

\* second pass without the indefinite() test around the deadline comparison
TimedOut_NoIndefinite(t, now, e) ==
    /\ ~t.conditionMet
    /\ ~ConditionTrue(RepairCondition(t), e)
    /\ Reached(now, t.executeAt)

\* second pass: the condition deadline has passed => removePIDs
TimedOut(t, now, e) ==
    /\ ~t.conditionMet
    /\ ~ConditionTrue(RepairCondition(t), e)
    /\ ~Indefinite(t)
    /\ Reached(now, t.executeAt)

\* the readiness test as now == executeAt
Ready_Exact(t, now) == t.conditionMet /\ now = t.executeAt

\* second pass: condition met earlier and executeAt reached => execPIDs
Ready(t, now) == t.conditionMet /\ Reached(now, t.executeAt)

\* removePIDs after the second pass: the timed-out tasks, in store order
TimedOutPIDs(tasks, now, e) ==
    LET hit == SelectSeq(tasks, LAMBDA t : TimedOut(t, now, e))
    IN  [i \in 1..Len(hit) |-> hit[i].PID]

\* execPIDs filled from the back of the store to its front
ReadyPIDs_Reversed(tasks, now) ==
    LET hit == SelectSeq(tasks, LAMBDA t : Ready(t, now))
    IN  [i \in 1..Len(hit) |-> hit[Len(hit) + 1 - i].PID]

\* execPIDs after the second pass: the ready tasks, in store order
ReadyPIDs(tasks, now) ==
    LET hit == SelectSeq(tasks, LAMBDA t : Ready(t, now))
    IN  [i \in 1..Len(hit) |-> hit[i].PID]

\* the stop-from-inside step leaving repeat as it is
StopFromInside_KeepRepeat(S) ==
    LET hit == SelectSeq(S.tasksToRemove, LAMBDA p : FindByPID(S.tasks, p) /= 0)
    IN  [S    |-> [S EXCEPT !.will_stop = FALSE, !.tasksToRemove = <<>>],
         exec |-> hit]

\* the stop-from-inside step clearing execPIDs and the ledger without
\* handing the ledger's PIDs to the reconcile step
StopFromInside_ClearOnly(S) ==
    [S    |-> [S EXCEPT !.will_stop = FALSE, !.tasksToRemove = <<>>],
     exec |-> <<>>]

\* stop() was called by the action that just ran: every ledger PID still in
\* the store has repeat cleared and becomes the list to reconcile
StopFromInside(S) ==
    LET hit == SelectSeq(S.tasksToRemove, LAMBDA p : FindByPID(S.tasks, p) /= 0)
        idx == {FindByPID(S.tasks, hit[k]) : k \in 1..Len(hit)}
    IN  [S    |-> [S EXCEPT !.will_stop = FALSE,
                            !.tasksToRemove = <<>>,
                            !.tasks = [j \in 1..Len(S.tasks) |->
                                         IF j \in idx
                                         THEN [S.tasks[j] EXCEPT !.repeat = FALSE]
                                         ELSE S.tasks[j]]],
         exec |-> hit]

RECURSIVE Dispatch_LiveStore(_, _, _)
\* the "Execute tasks" loop picking up the tasks an action has just added
Dispatch_LiveStore(S, exec, k) ==
    IF k > Len(exec) THEN [S |-> S, exec |-> exec]
    ELSE LET i == FindByPID(S.tasks, exec[k])
         IN  IF i = 0 THEN Dispatch_LiveStore(S, exec, k + 1)
             ELSE LET A == Invoke(S, exec[k], S.tasks[i].action)
                      new == SelectSeq(A.tasks,
                                       LAMBDA t : t.PID \notin PIDsOf(S.tasks))
                  IN  IF A.will_stop THEN StopFromInside(A)
                      ELSE Dispatch_LiveStore(
                              A, exec \o [n \in 1..Len(new) |-> new[n].PID], k + 1)

RECURSIVE Dispatch_SkipMarked(_, _, _)
\* the "Execute tasks" loop passing over the PIDs that are on the removal
\* ledger
Dispatch_SkipMarked(S, exec, k) ==
    IF k > Len(exec) THEN [S |-> S, exec |-> exec]
    ELSE LET i == FindByPID(S.tasks, exec[k])
         IN  IF i = 0 \/ exec[k] \in SeqToSet(S.tasksToRemove)
             THEN Dispatch_SkipMarked(S, exec, k + 1)
             ELSE LET A == Invoke(S, exec[k], S.tasks[i].action)
                  IN  IF A.will_stop THEN StopFromInside(A)
                      ELSE Dispatch_SkipMarked(A, exec, k + 1)

\* the end of the body of the "Execute tasks" loop, by break or by falling
\* through: the MuxGuard declared after act() goes out of scope
Unlocked(D) == [S |-> MuxExit(D.S), exec |-> D.exec]

RECURSIVE Dispatch_ActUnderLock(_, _, _)
\* the "Execute tasks" loop with the MuxGuard declared before act()
Dispatch_ActUnderLock(S, exec, k) ==
    IF k > Len(exec) THEN [S |-> S, exec |-> exec]
    ELSE LET i == FindByPID(S.tasks, exec[k])
         IN  IF i = 0 THEN Dispatch_ActUnderLock(S, exec, k + 1)
             ELSE LET A == Invoke(MuxEnter(S), exec[k], S.tasks[i].action)
                  IN  IF A.will_stop THEN Unlocked(StopFromInside(A))
                      ELSE Dispatch_ActUnderLock(MuxExit(A), exec, k + 1)

RECURSIVE Dispatch(_, _, _)
\* the "Execute tasks" loop from position k of execPIDs on; yields the
\* scheduler and the execPIDs list as the loop leaves them
Dispatch(S, exec, k) ==
    IF k > Len(exec) THEN [S |-> S, exec |-> exec]
    ELSE LET i == FindByPID(S.tasks, exec[k])
         IN  IF i = 0 THEN Dispatch(S, exec, k + 1)
             ELSE LET A == MuxEnter(Invoke(S, exec[k], S.tasks[i].action))
                  IN  IF A.will_stop THEN Unlocked(StopFromInside(A))
                      ELSE Dispatch(MuxExit(A), exec, k + 1)

\* "Remove or reschedule" leaving conditionMet of a repeating task set
Reschedule_KeepMet(tasks, exec) ==
    LET idx == {FindByPID(tasks, exec[k]) : k \in 1..Len(exec)}
    IN  [j \in 1..Len(tasks) |->
           IF j \in idx /\ tasks[j].repeat
           THEN [tasks[j] EXCEPT !.postConditionDelay = tasks[j].interval,
                                 !.executeAt = 0]
           ELSE tasks[j]]

\* "Remove or reschedule": repeating tasks of execPIDs go back to a fresh state
Reschedule(tasks, exec) ==
    LET idx == {FindByPID(tasks, exec[k]) : k \in 1..Len(exec)}
    IN  [j \in 1..Len(tasks) |->
           IF j \in idx /\ tasks[j].repeat
           THEN [tasks[j] EXCEPT !.conditionMet = FALSE,
                                 !.postConditionDelay = tasks[j].interval,
                                 !.executeAt = 0]
           ELSE tasks[j]]

\* the executed PIDs that go to removePIDs: found and not repeating
Finished(tasks, exec) ==
    {exec[k] : k \in {n \in 1..Len(exec) :
                        /\ FindByPID(tasks, exec[n]) /= 0
                        /\ ~tasks[FindByPID(tasks, exec[n])].repeat}}

\* commit: for every PID of removePIDs (sorted, unique) erase its first task
EraseSet(tasks, pids) == EraseIndices(tasks, {FindByPID(tasks, p) : p \in pids})

\* onTimeout(pid) for the timed-out tasks that carry a callback
TimeoutCalls(tasks, timedOut) ==
    SelectSeq(timedOut, LAMBDA p : FindByPID(tasks, p) /= 0
                                   /\ tasks[FindByPID(tasks, p)].onTimeout)

\* the tasks whose predicate loop calls: in the first pass those not set up
\* that wait without deadline, in the second pass those whose condition is
\* not met after the first (act is the store after the first pass)
ProbedParallel(tasks, act) ==
    {tasks[i].PID : i \in {j \in 1..Len(tasks) :
        \/ tasks[j].executeAt = 0 /\ Indefinite(tasks[j])
                                  /\ tasks[j].condition /= "null"
        \/ ~act[j].conditionMet}}

LoopParallel(S, now, e) ==
    LET act      == [i \in 1..Len(S.tasks) |-> ActivateTask(S.tasks[i], now, e)]
        timedOut == TimedOutPIDs(act, now, e)
        execPIDs == ReadyPIDs(act, now)
        cls      == [i \in 1..Len(act) |-> ClassifyTask(act[i], now, e)]
        P        == MuxExit([MuxEnter(S) EXCEPT !.tasks = cls])
        D        == Dispatch(P, execPIDs, 1)
        removeP  == SeqToSet(timedOut) \cup Finished(D.S.tasks, D.exec)
        resched  == Reschedule(D.S.tasks, D.exec)
    IN  [D.S EXCEPT !.timeouts = TimeoutCalls(D.S.tasks, timedOut),
                    !.probed = ProbedParallel(S.tasks, act),
                    !.tasks = EraseSet(resched, removeP)]

\* ------------------------------------------------------------------------
\* loop(), sequential mode: only the front task matters
\* ------------------------------------------------------------------------
\* the local copy taken from the back of the store
FrontTask_Back(tasks) == tasks[Len(tasks)]

\* t = tasks.front(): the local copy sequential mode works on
FrontTask(tasks) == Head(tasks)

\* activation of the local copy with the deadline at baseTime itself
ActivateHead_NoWait(t, baseTime) ==
    IF t.executeAt /= 0 THEN t
    ELSE LET c == RepairCondition(t)
         IN  IF ~Indefinite(c) THEN SetExecutionTime(c, baseTime) ELSE c

\* activation of the local copy t, relative to lastSequentialFinishTime
ActivateHead(t, baseTime) ==
    IF t.executeAt /= 0 THEN t
    ELSE LET c == RepairCondition(t)
         IN  IF ~Indefinite(c)
             THEN SetExecutionTime(c, Add32(baseTime, c.conditionWait))
             ELSE c

\* modifyTaskByPID
ModifyTaskByPID(tasks, pid, newTask) ==
    LET i == FindByPID(tasks, pid)
    IN  IF i = 0 THEN tasks ELSE [tasks EXCEPT ![i] = newTask]

\* the sequential stop-from-inside step sparing the task being handled
StopFromInsideSeq_SpareHead(A, pid, now) ==
    [A EXCEPT !.will_stop = FALSE,
              !.tasks = EraseAll(A.tasks, SelectSeq(A.tasksToRemove,
                                                    LAMBDA p : p /= pid)),
              !.tasksToRemove = <<>>,
              !.lastSequentialFinishTime = now]

\* the sequential stop-from-inside step: every ledger PID is erased
StopFromInsideSeq(A, pid, now) ==
    [A EXCEPT !.will_stop = FALSE,
              !.tasks = EraseAll(A.tasks, A.tasksToRemove),
              !.tasksToRemove = <<>>,
              !.lastSequentialFinishTime = now]

LoopSequential(S0, now, e) ==
    IF S0.tasks = <<>> THEN S0
    ELSE
    LET t0 == FrontTask(S0.tasks)
        t1 == ActivateHead(t0, S0.lastSequentialFinishTime)
        S  == [S0 EXCEPT !.probed = IF ~t1.conditionMet /\ t1.condition /= "null"
                                    THEN {t1.PID} ELSE {}]
        becameTrue     == ~t1.conditionMet /\ ConditionTrue(t1, e)
        removeThisTask == /\ ~t1.conditionMet
                          /\ ~ConditionTrue(t1, e)
                          /\ ~Indefinite(t1)
                          /\ Reached(now, t1.executeAt)
        executeThisTask == t1.conditionMet /\ Reached(now, t1.executeAt)
        t2 == IF becameTrue
              THEN SetExecutionTime([t1 EXCEPT !.conditionMet = TRUE],
                                    Add32(now, t1.postConditionDelay))
              ELSE t1
    IN  IF removeThisTask
        THEN [S EXCEPT !.tasks = EraseByPID(S.tasks, t2.PID),
                       !.timeouts = TimeoutCalls(S.tasks, <<t2.PID>>),
                       !.lastSequentialFinishTime = now]
        ELSE IF executeThisTask
        THEN LET A == MuxEnter(Invoke(S, t2.PID, t2.action))
             IN  IF A.will_stop
                 THEN MuxExit(StopFromInsideSeq(A, t2.PID, now))
                 ELSE MuxExit([A EXCEPT !.tasks = EraseByPID(A.tasks, t2.PID),
                                        !.lastSequentialFinishTime = now])
        ELSE IF t2 /= t0
        THEN [S EXCEPT !.tasks = ModifyTaskByPID(S.tasks, t2.PID, t2)]
        ELSE S

\* ------------------------------------------------------------------------
\* Scheduler::loop
\* ------------------------------------------------------------------------
\* the body of loop() taking the parallel branch whatever the mode
LoopBody_AlwaysParallel(S, now, e) ==
    [LoopParallel([S EXCEPT !.inLoop = TRUE], now, e) EXCEPT !.inLoop = FALSE]

\* the body of loop() past its guarded entry
LoopBody(S, now, e) ==
    LET S2 == [S EXCEPT !.inLoop = TRUE]
        R  == IF ~S2.sequentialMode
              THEN LoopParallel(S2, now, e)
              ELSE LoopSequential(S2, now, e)
    IN  [R EXCEPT !.inLoop = FALSE]

\* loop() without the ledger drain at its entry when will_stop is not set
LoopCall_NoDrain(S, now, e) ==
    IF S.tasks = <<>> \/ S.onHold THEN S
    ELSE IF S.will_stop
    THEN ClearMarkedForRemoval([S EXCEPT !.will_stop = FALSE])
    ELSE LoopBody(S, now, e)

\* loop() without the return after the will_stop drain
LoopCall_NoReturnOnStop(S, now, e) ==
    IF S.tasks = <<>> \/ S.onHold THEN S
    ELSE IF S.will_stop
    THEN LoopBody(ClearMarkedForRemoval([S EXCEPT !.will_stop = FALSE]), now, e)
    ELSE LoopBody(IF Len(S.tasksToRemove) > 0 THEN ClearMarkedForRemoval(S) ELSE S,
                  now, e)

\* loop() testing will_stop before the empty store and the hold
LoopCall_StopFirst(S, now, e) ==
    IF S.will_stop
    THEN ClearMarkedForRemoval([S EXCEPT !.will_stop = FALSE])
    ELSE IF S.tasks = <<>> \/ S.onHold THEN S
    ELSE LoopBody(IF Len(S.tasksToRemove) > 0 THEN ClearMarkedForRemoval(S) ELSE S,
                  now, e)

\* loop() without the onHold test at its entry
LoopCall_NoHold(S, now, e) ==
    IF S.tasks = <<>> THEN S
    ELSE IF S.will_stop
    THEN ClearMarkedForRemoval([S EXCEPT !.will_stop = FALSE])
    ELSE LoopBody(IF Len(S.tasksToRemove) > 0 THEN ClearMarkedForRemoval(S) ELSE S,
                  now, e)

LoopCall(S, now, e) ==
    IF S.tasks = <<>> \/ S.onHold THEN S
    ELSE IF S.will_stop
    THEN ClearMarkedForRemoval([S EXCEPT !.will_stop = FALSE])
    ELSE LoopBody(IF Len(S.tasksToRemove) > 0 THEN ClearMarkedForRemoval(S) ELSE S,
                  now, e)

\* Scheduler::timeToNextTask
RECURSIVE ScanTimeToNext(_, _, _, _)
ScanTimeToNext(tasks, i, now, minTime) ==
    IF i > Len(tasks) THEN minTime
    ELSE IF tasks[i].executeAt = 0 THEN 0
    ELSE LET timeLeft == Sub32(tasks[i].executeAt, now)
         IN  IF timeLeft < 0 THEN 0
             ELSE ScanTimeToNext(tasks, i + 1, now,
                                 IF timeLeft < minTime THEN timeLeft ELSE minTime)

\* timeToNextTask without the one-minute cap
TimeToNextTask_NoCap(S, now) ==
    IF S.tasks = <<>> THEN MAX_WAIT ELSE ScanTimeToNext(S.tasks, 1, now, MaxI32)

TimeToNextTask(S, now) ==
    IF S.tasks = <<>> THEN MAX_WAIT ELSE ScanTimeToNext(S.tasks, 1, now, MAX_WAIT)

\* ------------------------------------------------------------------------
\* State
\* ------------------------------------------------------------------------
VARIABLES
    tasks,                      \* std::vector<Task> tasks
    sequentialMode,             \* bool sequentialMode
    lastSequentialFinishTime,   \* uint32_t lastSequentialFinishTime
    will_stop,                  \* bool will_stop
    tasksToRemove,              \* std::vector<PID_t> tasksToRemove (the ledger)
    nextPID,                    \* PID_t nextPID
    onHold,                     \* bool onHold
    inLoop,                     \* bool inLoop
    clock,                      \* what millis() returns
    env,                        \* what an environment-reading condition returns
    last,                       \* history: the last call, the PID it was given
                                \* (arg), its return value (ret: a number, ok: a
                                \* bool), for loop the path it took, the actions
                                \* and timeout callbacks it invoked, the calls
                                \* its actions made, the predicates it called,
                                \* the PIDs stored at a stop(), the PIDs it
                                \* erased, the PIDs on the ledger, the PIDs
                                \* ready to run, the PIDs of the repeating
                                \* tasks and the PIDs of the tasks not set up
                                \* (executeAt == 0) when loop was entered;
                                \* late: the PIDs of the stored tasks that
                                \* were added while their PID was on the
                                \* ledger and that no removeTask() or stop()
                                \* has named since; ctx: for each action
                                \* loop invoked, inLoop and whether the
                                \* critical section was held at the call
    stopSnap,                   \* history: PIDs stored when stop() was called
                                \* outside loop and not yet consumed by loop
    addedAt,                    \* history: clock at the add call, per stored PID
                                \* of a task with a condition deadline
    reps,                       \* history: per stored repeating PID, its runs
    removed,                    \* history: PIDs removeTask() returned true for
                                \* outside loop, not yet consumed by loop
    adding,                     \* the addTimedTask call of the main context
                                \* that is between two of its critical
                                \* sections: <<>> when there is none, else its
                                \* position (pc) and its local Task t
    sinceLoop                   \* history: how far Tick has moved the clock
                                \* since loop was last called

vars == <<tasks, sequentialMode, lastSequentialFinishTime, will_stop,
          tasksToRemove, nextPID, onHold, inLoop, clock, env, last,
          stopSnap, addedAt, reps, removed, adding, sinceLoop>>

\* the scheduler object of the current state, entering a call
Sched ==
    [tasks |-> tasks, sequentialMode |-> sequentialMode,
     lastSequentialFinishTime |-> lastSequentialFinishTime,
     will_stop |-> will_stop, tasksToRemove |-> tasksToRemove,
     nextPID |-> nextPID, onHold |-> onHold, inLoop |-> inLoop,
     ret |-> 0, arg |-> 0, val |-> 0, fired |-> <<>>, timeouts |-> <<>>,
     inner |-> <<>>, probed |-> {}, atStop |-> {}, mux |-> 0, ctx |-> <<>>]

\* the number of times s holds p
Count(s, p) == Cardinality({k \in 1..Len(s) : s[k] = p})

\* the PIDs of the stored repeating tasks
RepeatPIDs(ts) == {ts[i].PID : i \in {j \in 1..Len(ts) : ts[j].repeat}}

MaxRuns == 4        \* the firings of a repeating task are counted up to this

\* history of a repeating task since it was added or, set being TRUE, since
\* setRepeatingTaskInterval last changed it: the delay it was given then,
\* the clock of the first loop call that processed it, its firings so far
\* (counted up to MaxRuns), the clock of the latest loop call that processed
\* it and the longest time between two such calls
NewRun(t) == [delay |-> t.postConditionDelay, first |-> <<>>, n |-> 0,
              prev |-> 0, gap |-> 0, set |-> FALSE]

NextRun(r, processed, now, fires) ==
    IF ~processed THEN r
    ELSE [delay |-> r.delay,
          first |-> IF r.first = <<>> THEN <<now>> ELSE r.first,
          n     |-> IF r.n + fires > MaxRuns THEN MaxRuns ELSE r.n + fires,
          prev  |-> now,
          set   |-> r.set,
          gap   |-> IF r.first /= <<>> /\ Sub32(now, r.prev) > r.gap
                    THEN Sub32(now, r.prev) ELSE r.gap]

\* the PIDs of the stored tasks that wait for their condition with a deadline
DeadlinePIDs(ts) == {ts[i].PID : i \in {j \in 1..Len(ts) : ~Indefinite(ts[j])}}

\* the PIDs of the stored tasks that are not set up: executeAt == 0
FreshPIDs(ts) == {ts[i].PID : i \in {j \in 1..Len(ts) : ts[j].executeAt = 0}}

\* the calls that return a bool
BoolOps == {"removeTask", "setRepeatingTaskInterval"}

AddOps == {"addTimedTask", "addConditionalTask", "addConditionalTimedTask"}

\* last.late after the call op: an add that hands out a PID found on the
\* ledger makes a late task, removeTask(pid) returning true and stop() name
\* the stored tasks themselves, and a loop call that gets past its first
\* test drains the ledger
LateAfter(op, R, ret) ==
    IF op \in AddOps
    THEN IF ret /= 0 /\ ret \in SeqToSet(tasksToRemove)
         THEN last.late \cup {ret} ELSE last.late
    ELSE IF op = "removeTask"
    THEN IF ret THEN last.late \ {R.arg} ELSE last.late
    ELSE IF op = "stop" \/ (op = "loop" /\ ret /= "idle")
    THEN {}
    ELSE last.late

\* the call op returned ret (for loop: the path it took) leaving the
\* scheduler as R
Outcome(op, R, ret) ==
    /\ tasks' = R.tasks
    /\ sequentialMode' = R.sequentialMode
    /\ lastSequentialFinishTime' = R.lastSequentialFinishTime
    /\ will_stop' = R.will_stop
    /\ tasksToRemove' = R.tasksToRemove
    /\ nextPID' = R.nextPID
    /\ onHold' = R.onHold
    /\ inLoop' = R.inLoop
    /\ last' = [op |-> op, arg |-> R.arg, val |-> R.val,
                 ret |-> IF op \in BoolOps \cup {"loop"} THEN 0 ELSE ret,
                 ok |-> IF op \in BoolOps THEN ret ELSE FALSE,
                 path |-> IF op = "loop" THEN ret ELSE "none",
                 fired |-> R.fired, timeouts |-> R.timeouts,
                 inner |-> R.inner, probed |-> R.probed, atStop |-> R.atStop,
                 ctx |-> R.ctx,
                 gone |-> PIDsOf(tasks) \ PIDsOf(R.tasks),
                 marked |-> IF op = "loop" THEN SeqToSet(tasksToRemove) ELSE {},
                 due |-> IF op = "loop" THEN SeqToSet(ReadyPIDs(tasks, clock)) ELSE {},
                 recur |-> IF op = "loop" THEN RepeatPIDs(tasks) ELSE {},
                 fresh |-> IF op = "loop" THEN FreshPIDs(tasks) ELSE {},
                 late |-> LateAfter(op, R, ret)]
    /\ removed' = IF op = "removeTask"
                  THEN IF ret
                       THEN removed \cup {R.tasksToRemove[Len(R.tasksToRemove)]}
                       ELSE removed
                  ELSE IF op = "loop"
                       THEN IF ret = "idle" THEN removed ELSE {}
                       ELSE removed
    /\ addedAt' = [p \in DeadlinePIDs(R.tasks) |->
                     IF p \in DOMAIN addedAt /\ p \in PIDsOf(tasks)
                     THEN addedAt[p] ELSE clock]
    /\ reps' = [p \in RepeatPIDs(R.tasks) |->
                  IF op = "setRepeatingTaskInterval" /\ ret /\ p = R.arg
                  THEN [NewRun(R.tasks[FindByPID(R.tasks, p)]) EXCEPT !.set = TRUE]
                  ELSE IF p \in DOMAIN reps /\ p \in PIDsOf(tasks)
                  THEN NextRun(reps[p], op = "loop" /\ ret = "ran", clock,
                               Count(R.fired, p))
                  ELSE NewRun(R.tasks[FindByPID(R.tasks, p)])]
    /\ sinceLoop' = IF op = "loop" THEN 0 ELSE sinceLoop
    /\ UNCHANGED <<clock, env>>

\* a call that ran from its entry to its return in one step
Returns(op, R, ret) == Outcome(op, R, ret) /\ UNCHANGED adding

\* Scheduler::Scheduler and the member initialisers
Fresh ==
    [tasks |-> <<>>, sequentialMode |-> FALSE, lastSequentialFinishTime |-> 0,
     will_stop |-> FALSE, tasksToRemove |-> <<>>, nextPID |-> 1,
     onHold |-> FALSE, inLoop |-> FALSE,
     ret |-> 0, arg |-> 0, val |-> 0, fired |-> <<>>, timeouts |-> <<>>,
     inner |-> <<>>, probed |-> {}, atStop |-> {}, mux |-> 0, ctx |-> <<>>]

\* the run starts at clock t with the scheduler object S
Starts(S, t) ==
    /\ tasks = S.tasks
    /\ sequentialMode = S.sequentialMode
    /\ lastSequentialFinishTime = S.lastSequentialFinishTime
    /\ will_stop = S.will_stop
    /\ tasksToRemove = S.tasksToRemove
    /\ nextPID = S.nextPID
    /\ onHold = S.onHold
    /\ inLoop = S.inLoop
    /\ clock = t
    /\ env = FALSE
    /\ last = [op |-> "new", arg |-> 0, val |-> 0, ret |-> 0, ok |-> FALSE, path |-> "none",
                fired |-> <<>>, timeouts |-> <<>>,
                inner |-> <<>>, probed |-> {}, atStop |-> {}, ctx |-> <<>>,
                gone |-> {}, marked |-> {}, due |-> {}, recur |-> {},
                fresh |-> {}, late |-> {}]
    /\ removed = {}
    /\ stopSnap = {}
    /\ adding = <<>>
    /\ sinceLoop = 0
    /\ addedAt = [p \in DeadlinePIDs(S.tasks) |-> t]
    /\ reps = [p \in RepeatPIDs(S.tasks) |-> NewRun(S.tasks[FindByPID(S.tasks, p)])]

\* ------------------------------------------------------------------------
\* Calls of the public API, with their arguments drawn from the given sets.
\* can is the condition under which the call is explored.
\* ------------------------------------------------------------------------
CallAddTimedTask(can, Acts, Delays, Reps, Ints) ==
    /\ can
    /\ \E a \in Acts, d \in Delays, r \in Reps, i \in Ints :
         \E R \in {AddTimedTask(Sched, a, d, r, i)} :
            Returns("addTimedTask", R, R.ret)
    /\ UNCHANGED stopSnap

CallAddConditionalTask(can, Acts, Conds, Waits, Tos) ==
    /\ can
    /\ \E a \in Acts, c \in Conds, w \in Waits, o \in Tos :
         \E R \in {AddConditionalTask(Sched, a, c, w, o)} :
            Returns("addConditionalTask", R, R.ret)
    /\ UNCHANGED stopSnap

CallAddConditionalTimedTask(can, Acts, Conds, Delays, Waits, Tos) ==
    /\ can
    /\ \E a \in Acts, c \in Conds, d \in Delays, w \in Waits, o \in Tos :
         \E R \in {AddConditionalTimedTask(Sched, a, c, d, w, o)} :
            Returns("addConditionalTimedTask", R, R.ret)
    /\ UNCHANGED stopSnap

CallRemoveTask(can, Pids) ==
    /\ can
    /\ \E pid \in Pids :
         \E R \in {[RemoveTask(Sched, pid) EXCEPT !.arg = pid]} :
            Returns("removeTask", R, R.ret)
    /\ UNCHANGED stopSnap

CallSetRepeatingTaskInterval(Ints, Absent) ==
    /\ \E pid \in PIDsOf(tasks) \cup Absent, i \in Ints :
         \E R \in {[SetRepeatingTaskInterval(Sched, pid, i) EXCEPT !.arg = pid,
                                                                  !.val = i]} :
            Returns("setRepeatingTaskInterval", R, R.ret)
    /\ UNCHANGED stopSnap

CallSetAndStartSequentialMode ==
    /\ \E seq \in BOOLEAN :
         Returns("setAndStartSequentialMode",
                 SetAndStartSequentialMode(Sched, seq, clock), 0)
    /\ UNCHANGED stopSnap

\* Scheduler::hold
CallHold ==
    /\ Returns("hold", [Sched EXCEPT !.onHold = TRUE], 0)
    /\ UNCHANGED stopSnap

\* Scheduler::resume
CallResume ==
    /\ Returns("resume", [Sched EXCEPT !.onHold = FALSE], 0)
    /\ UNCHANGED stopSnap

CallStop(can) ==
    /\ can
    /\ \E R \in {Stop(Sched)} : Returns("stop", R, 0)
    /\ stopSnap' = stopSnap \cup PIDsOf(tasks)

\* the path loop() takes through its guarded entry
LoopPath ==
    IF tasks = <<>> \/ onHold THEN "idle"
    ELSE IF will_stop THEN "stopped" ELSE "ran"

CallLoop ==
    /\ \E R \in {LoopCall(Sched, clock, env)} : Returns("loop", R, LoopPath)
    /\ stopSnap' = IF tasks = <<>> \/ onHold THEN stopSnap ELSE {}

CallTimeToNextTask ==
    /\ Returns("timeToNextTask", Sched, TimeToNextTask(Sched, clock))
    /\ UNCHANGED stopSnap

\* the clock moves on by d ms, up to the horizon past start
Advance(Steps, start, horizon) ==
    /\ \E d \in Steps :
         /\ Sub32(Add32(clock, d), start) <= horizon
         /\ clock' = Add32(clock, d)
    /\ UNCHANGED <<tasks, sequentialMode, lastSequentialFinishTime, will_stop,
                   tasksToRemove, nextPID, onHold, inLoop, env, last,
                   stopSnap, addedAt, reps, removed, adding, sinceLoop>>

\* the environment read by conditions changes
SetEnv ==
    /\ env' = ~env
    /\ UNCHANGED <<tasks, sequentialMode, lastSequentialFinishTime, will_stop,
                   tasksToRemove, nextPID, onHold, inLoop, clock, last,
                   stopSnap, addedAt, reps, removed, adding, sinceLoop>>

\* the step just taken is a call of op (Advance and SetEnv leave last alone)
IsCall(op) == last'.op = op /\ clock' = clock /\ env' = env

\* ------------------------------------------------------------------------
\* Bounds of the explored runs
\* ------------------------------------------------------------------------
MaxLive == 2        \* adds from outside are explored below this store size
MaxPid == 3         \* ... and while nextPID is at most this
MaxLedger == 2      \* removeTask/stop are explored while the ledger fits this
Horizon == 200      \* the clock is advanced at most this far

CanAdd == Len(tasks) < MaxLive /\ nextPID <= MaxPid
CanMark == Len(tasksToRemove) + Len(tasks) <= MaxLedger

\* ------------------------------------------------------------------------
\* Specification Spec: either mode (chosen before anything is added), timed
\* tasks whose actions add and stop, stop() and removeTask() from outside
\* ------------------------------------------------------------------------
Init ==
    \E seq \in BOOLEAN : Starts(SetAndStartSequentialMode(Fresh, seq, 1000), 1000)

Next ==
    \/ CallAddTimedTask(CanAdd, {"nop", "addStop"}, {0, 100}, {FALSE}, {0})
    \/ CallRemoveTask(CanMark, PIDsOf(tasks))
    \/ CallStop(CanMark)
    \/ CallLoop
    \/ CallHold
    \/ CallResume
    \/ Advance({100}, 1000, Horizon)

Spec == Init /\ [][Next]_vars

\* the loop call just made ran an action that calls addTimedTask(B, 10) and
\* then stop()
AddStopRan ==
    /\ IsCall("loop")
    /\ \E i \in 1..Len(tasks) : /\ tasks[i].action = "addStop"
                                /\ tasks[i].PID \in SeqToSet(last'.fired)

\* C6: when an action run by loop calls addTimedTask(B, 10) and then stop(),
\* B is in the store when that loop call returns and every task stored before
\* the action ran is gone, in either mode
C6_AddThenStopKeepsNew ==
    [][AddStopRan =>
         /\ \E j \in 1..Len(tasks') : /\ tasks'[j].PID \notin PIDsOf(tasks)
                                      /\ tasks'[j].postConditionDelay = 10
         /\ PIDsOf(tasks') \cap PIDsOf(tasks) = {}]_vars

\* stop() was called outside loop, tasks were added since, and loop is now
\* called with the scheduler not on hold
LoopAfterStopAndAdd ==
    /\ IsCall("loop")
    /\ will_stop /\ ~onHold
    /\ \E i \in 1..Len(tasks) : tasks[i].PID \notin stopSnap

\* C7 as claimed: the loop call after stop() and later adds leaves the store
\* empty
C7_StoreEmptyAfterStop ==
    [][LoopAfterStopAndAdd => tasks' = <<>>]_vars

\* C7 amended: that loop call erases exactly the tasks whose PID is on the
\* removal ledger; a task added after stop() whose PID is not on the ledger
\* stays in the store unchanged
C7_LaterAddedSurvive ==
    [][LoopAfterStopAndAdd =>
         tasks' = SelectSeq(tasks, LAMBDA t : t.PID \notin SeqToSet(tasksToRemove))]_vars

\* a loop call took the will_stop path, erased tasks and left others stored
C7_Witness ==
    /\ last.op = "loop" /\ last.path = "stopped"
    /\ last.gone /= {}
    /\ tasks /= <<>>

\* C8: the loop call after stop() was called outside loop on a non-empty
\* store, the scheduler not on hold, removes every task stored at the stop()
\* call, clears will_stop and the ledger, invokes no action or callback and
\* leaves every remaining task and every other field as it was
C8_StopOutsideThenLoop ==
    [][(IsCall("loop") /\ will_stop /\ stopSnap /= {} /\ ~onHold) =>
         /\ PIDsOf(tasks') \cap stopSnap = {}
         /\ ~will_stop' /\ tasksToRemove' = <<>>
         /\ last'.fired = <<>> /\ last'.timeouts = <<>>
         /\ \A j \in 1..Len(tasks') : \E i \in 1..Len(tasks) : tasks'[j] = tasks[i]
         /\ ~inLoop'
         /\ UNCHANGED <<sequentialMode, lastSequentialFinishTime, nextPID, onHold>>]_vars

\* a loop call took the will_stop path and erased every stored task
C8_Witness ==
    /\ last.op = "loop" /\ last.path = "stopped"
    /\ last.gone /= {}
    /\ tasks = <<>> /\ ~will_stop /\ tasksToRemove = <<>>

\* ------------------------------------------------------------------------
\* Specification SpecPid: PID allocation from a fresh scheduler and from one
\* whose 16-bit counter is about to wrap while PID 1 is still in use (the
\* first task added waits for ever, 65532 others have come and gone)
\* ------------------------------------------------------------------------
NearWrap ==
    [Fresh EXCEPT !.tasks = <<NewTask(1, "nop", FALSE, FALSE, 0, "false", 0, 0)>>,
                  !.nextPID = PID_MOD - 2]

CanAddPid ==
    /\ Len(tasks) < MaxLive + 1
    /\ nextPID <= MaxPid \/ nextPID >= PID_MOD - 2

InitPid == \E S \in {Fresh, NearWrap} : Starts(S, 1000)

NextPid ==
    \/ CallAddTimedTask(CanAddPid, {"nop", "add"}, {0}, {FALSE}, {0})
    \/ CallAddConditionalTask(CanAddPid, {"nop"}, {"false"}, {0}, {FALSE})
    \/ CallAddConditionalTimedTask(CanAddPid, {"nop"}, {"true"}, {0}, {0}, {FALSE})
    \/ CallRemoveTask(CanMark, PIDsOf(tasks) \cup {0, nextPID})
    \/ CallStop(CanMark)
    \/ CallLoop

SpecPid == InitPid /\ [][NextPid]_vars

\* C1: no two stored tasks share a PID and no stored task has PID 0, the
\* 16-bit counter wrapping into PIDs still in use included
C1_UniqueNonzeroPIDs ==
    /\ \A i, j \in 1..Len(tasks) : i /= j => tasks[i].PID /= tasks[j].PID
    /\ \A i \in 1..Len(tasks) : tasks[i].PID /= 0

\* the counter wrapped: after 65535 the add skipped 0 and the PID 1 in use
C1_Witness ==
    /\ last.op \in AddOps
    /\ last.ret = 2
    /\ {1, PID_MOD - 1, 2} \subseteq PIDsOf(tasks)

\* ------------------------------------------------------------------------
\* Specification SpecCap: a store MaxLive short of MAX_TASKS (tasks 1, 2, ...
\* wait for ever on a false condition) with the PID counter at 65535
\* ------------------------------------------------------------------------
NearFull ==
    [Fresh EXCEPT !.tasks = [i \in 1..(MAX_TASKS - MaxLive) |->
                               NewTask(i, "nop", FALSE, FALSE, 0, "false", 0, 0)],
                  !.nextPID = PID_MOD - 1]

CanAddCap ==
    /\ Len(tasks) >= MAX_TASKS - MaxLive
    /\ nextPID >= PID_MOD - 1 \/ nextPID < MAX_TASKS - MaxLive + MaxPid

CanMarkCap == Len(tasksToRemove) < MaxLedger

InitCap == Starts(NearFull, 1000)

NextCap ==
    \/ CallAddTimedTask(CanAddCap, {"nop", "add"}, {0}, {FALSE}, {0})
    \/ CallAddConditionalTask(CanAddCap, {"nop"}, {"false"}, {0}, {FALSE})
    \/ CallAddConditionalTimedTask(CanAddCap, {"nop"}, {"true"}, {0}, {0}, {FALSE})
    \/ CallRemoveTask(CanMarkCap,
                      {p \in PIDsOf(tasks) : p > MAX_TASKS - MaxLive})
    \/ CallStop(tasksToRemove = <<>>)
    \/ CallLoop

SpecCap == InitCap /\ [][NextCap]_vars

\* C2: the store never holds more than MAX_TASKS (124) tasks
C2_AtMostMaxTasks == Len(tasks) <= MAX_TASKS

\* an addTimedTask was refused on the full store
C2_Witness ==
    /\ last.op = "addTimedTask"
    /\ last.ret = 0
    /\ Len(tasks) = MAX_TASKS

\* C3: an add returns 0 exactly when the store holds 124 tasks; then the
\* store, the ledger and the PID counter are untouched; otherwise exactly one
\* task, carrying the returned PID, is appended at the tail
C3_AddZeroIffFull ==
    [][\A op \in AddOps : IsCall(op) =>
         /\ (last'.ret = 0) <=> (Len(tasks) = MAX_TASKS)
         /\ last'.ret = 0 =>
              /\ tasks' = tasks
              /\ tasksToRemove' = tasksToRemove
              /\ nextPID' = nextPID
         /\ last'.ret /= 0 =>
              /\ Len(tasks') = Len(tasks) + 1
              /\ SubSeq(tasks', 1, Len(tasks)) = tasks
              /\ tasks'[Len(tasks')].PID = last'.ret
              /\ last'.ret \notin PIDsOf(tasks)]_vars

\* the store was filled by an add that came after the PID counter wrapped,
\* and the next add was refused
C3_Witness ==
    /\ last.op \in AddOps \ {"addTimedTask"}
    /\ last.ret = 0
    /\ Len(tasks) = MAX_TASKS
    /\ tasks[MAX_TASKS].PID = MAX_TASKS - MaxLive + 1
    /\ tasks[MAX_TASKS - 1].PID = PID_MOD - 1

\* ------------------------------------------------------------------------
\* Specification SpecMode: repeating and one-shot timed tasks, with the mode
\* switched at any time
\* ------------------------------------------------------------------------
InitMode == Starts(Fresh, 1000)

NextMode ==
    \/ CallAddTimedTask(CanAdd, {"nop"}, {0, 100}, BOOLEAN, {0})
    \/ CallSetAndStartSequentialMode
    \/ CallRemoveTask(CanMark, PIDsOf(tasks))
    \/ CallStop(CanMark)
    \/ CallLoop
    \/ Advance({100}, 1000, Horizon)

SpecMode == InitMode /\ [][NextMode]_vars

\* C4: whenever the scheduler is in sequential mode, no stored task has
\* repeat == true
C4_SequentialNoRepeat ==
    sequentialMode => \A i \in 1..Len(tasks) : ~tasks[i].repeat

\* ------------------------------------------------------------------------
\* Specification SpecSeq: sequential mode started at 1000, timed tasks with
\* delays 50, 100 and 200, loop called at any multiple of 50 ms
\* ------------------------------------------------------------------------
CanAddSeq == Len(tasks) < MaxLive + 1 /\ nextPID <= MaxPid

InitSeq == Starts(SetAndStartSequentialMode(Fresh, TRUE, 1000), 1000)

NextSeq ==
    \/ CallAddTimedTask(CanAddSeq, {"nop"}, {50, 100, 200}, {FALSE}, {0})
    \/ CallLoop
    \/ Advance({50, 100}, 1000, 2 * Horizon)

SpecSeq == InitSeq /\ [][NextSeq]_vars

\* the front task was added by addTimedTask and nothing but its delay keeps
\* it from running
TimedHead ==
    /\ sequentialMode /\ ~onHold /\ ~will_stop
    /\ tasks /= <<>> /\ tasksToRemove = <<>>
    /\ Head(tasks).condition = "true"
    /\ Head(tasks).conditionWait = 0

\* C5: in sequential mode the delay D of a timed front task counts from the
\* previous task's completion F (lastSequentialFinishTime): a loop call runs
\* its action exactly when now >= F + D
C5_DelayFromPreviousFinish ==
    [][(IsCall("loop") /\ TimedHead) =>
         ((Head(tasks).PID \in SeqToSet(last'.fired)) <=>
          Reached(clock, Add32(lastSequentialFinishTime,
                               Head(tasks).postConditionDelay)))]_vars

\* ------------------------------------------------------------------------
\* Specification SpecCond: either mode, conditional tasks with and without a
\* deadline and a timeout callback, conditions reading the environment,
\* removeTask() and stop() from outside
\* ------------------------------------------------------------------------
InitCond ==
    \E seq \in BOOLEAN : Starts(SetAndStartSequentialMode(Fresh, seq, 1000), 1000)

\* removeTask() and stop() are explored while the ledger is empty
CanMarkCond == tasksToRemove = <<>>

NextCond ==
    \/ CallAddConditionalTask(CanAdd, {"nop"}, {"env"}, {0, 100}, BOOLEAN)
    \/ CallRemoveTask(CanMarkCond, PIDsOf(tasks))
    \/ CallStop(CanMarkCond)
    \/ CallLoop
    \/ SetEnv
    \/ Advance({100}, 1000, Horizon)

SpecCond == InitCond /\ [][NextCond]_vars

\* the stored tasks a loop call entered now looks at: all of them in parallel
\* mode, the front one in sequential mode, once the ledger is drained
Looked ==
    LET kept == {i \in 1..Len(tasks) : tasks[i].PID \notin SeqToSet(tasksToRemove)}
    IN  IF LoopPath /= "ran" \/ kept = {} THEN {}
        ELSE IF sequentialMode
             THEN {CHOOSE i \in kept : \A j \in kept : i <= j}
             ELSE kept

\* the looked-at tasks that wait with a deadline W, 0 < W < 2^31, for a
\* condition that is false
Waiting ==
    {i \in Looked : /\ ~tasks[i].conditionMet
                    /\ tasks[i].conditionWait > 0
                    /\ ~ConditionTrue(tasks[i], env)}

\* C9 as claimed: a task added at T0 with deadline W whose condition stays
\* false is removed by the first loop call at T with (signed) T - (T0 + W) >= 0
C9_DeadlineFromAdd ==
    [][IsCall("loop") =>
         \A i \in Waiting :
            (tasks[i].PID \notin PIDsOf(tasks')) <=>
            Reached(clock, Add32(addedAt[tasks[i].PID], tasks[i].conditionWait))]_vars

\* C9 amended: the deadline is set by the first loop call that looks at the
\* task, to that call's now + W in parallel mode and to
\* lastSequentialFinishTime + W in sequential mode (0 is stored as 1), and
\* kept from then on; a loop call at T removes the task exactly when
\* (signed) T - deadline >= 0
C9_DeadlineFromActivation ==
    [][IsCall("loop") =>
         \A i \in Waiting :
            LET t    == tasks[i]
                base == IF sequentialMode THEN lastSequentialFinishTime ELSE clock
                due  == IF t.executeAt /= 0 THEN t.executeAt
                        ELSE IF Add32(base, t.conditionWait) = 0 THEN 1
                        ELSE Add32(base, t.conditionWait)
            IN  IF Reached(clock, due)
                THEN t.PID \notin PIDsOf(tasks')
                ELSE \E j \in 1..Len(tasks') :
                        tasks'[j] = [t EXCEPT !.executeAt = due]]_vars

\* a loop call removed a task that was neither on the ledger nor run: its
\* deadline had passed
C9_Witness ==
    /\ last.op = "loop" /\ last.path = "ran"
    /\ \E p \in last.gone : p \notin last.marked /\ p \notin SeqToSet(last.fired)

InitRep == Starts(Fresh, 1000)

NextRep ==
    \/ CallAddTimedTask(CanAdd, {"nop"}, {0, 20}, {TRUE}, {0, 20})
    \/ CallLoop
    \/ Advance({10}, 1000, (3 * Horizon) \div 10)

SpecRep == InitRep /\ [][NextRep]_vars

\* the stored repeating tasks whose action the loop call just made invoked
\* and that loop has processed at every tick of 10 ms since it first did
FiredOnTime ==
    {i \in 1..Len(tasks) :
        /\ IsCall("loop")
        /\ tasks[i].repeat
        /\ tasks[i].PID \in SeqToSet(last'.fired)
        /\ reps[tasks[i].PID].gap <= 10
        /\ reps[tasks[i].PID].first /= <<>> =>
              Sub32(clock, reps[tasks[i].PID].prev) <= 10}

\* C11: in parallel mode, loop called at every tick, the k-th firing
\* (k = 0, 1, ...) of a task added with delay D and interval I > 0 and first
\* processed at T0 happens at a loop call within one tick of T0 + D + k*I
C11_NoDrift ==
    [][\A i \in FiredOnTime :
          LET r   == reps[tasks[i].PID]
              T0  == IF r.first = <<>> THEN clock ELSE r.first[1]
              due == T0 + r.delay + r.n * tasks[i].interval
          IN  (tasks[i].interval > 0 /\ r.n < MaxRuns) =>
                 (clock - due <= 10 /\ due - clock <= 10)]_vars

\* C12: addTimedTask(a, delayMs, repeat=true) with the interval left at 0
\* repeats every delayMs: once the task has fired for the first time its
\* interval and postConditionDelay are delayMs
C12_IntervalDefaultsToDelay ==
    [][\A i \in FiredOnTime :
          LET r == reps[tasks[i].PID]
          IN  (tasks[i].interval = 0 /\ r.n = 0) =>
                 \E j \in 1..Len(tasks') :
                    /\ tasks'[j].PID = tasks[i].PID
                    /\ tasks'[j].interval = r.delay
                    /\ tasks'[j].postConditionDelay = r.delay]_vars

\* ------------------------------------------------------------------------
\* Specification SpecWrap: either mode, one-shot timed tasks, the clock
\* starting 200 ms before the 32-bit wrap (2^32 - 200 is written -200);
\* the delay -100 is the uint32_t 2^32 - 100
\* ------------------------------------------------------------------------
InitWrap ==
    \E seq \in BOOLEAN : Starts(SetAndStartSequentialMode(Fresh, seq, -200), -200)

NextWrap ==
    \/ CallAddTimedTask(CanAdd, {"nop"}, {0, 100, 200, -100}, {FALSE}, {0})
    \/ CallLoop
    \/ Advance({100}, -200, 2 * Horizon)

SpecWrap == InitWrap /\ [][NextWrap]_vars

\* the one-shot timed tasks a loop call entered now looks at
TimedLooked ==
    {i \in Looked : /\ tasks[i].condition = "true"
                    /\ tasks[i].conditionWait = 0
                    /\ ~tasks[i].repeat}

\* C13 as claimed: in parallel mode the first loop call, at T, sets executeAt
\* of a task added by addTimedTask(a, D) to T + D, no later call changes it,
\* the action runs at the first loop call with now >= T + D and not before,
\* and the task is then gone
C13_ExecuteAtIsTPlusD ==
    [][(IsCall("loop") /\ ~sequentialMode) =>
         \A i \in TimedLooked :
            LET t == tasks[i]
                E == IF t.executeAt /= 0 THEN t.executeAt
                     ELSE Add32(clock, t.postConditionDelay)
            IN  IF Reached(clock, E)
                THEN /\ Count(last'.fired, t.PID) = 1
                     /\ t.PID \notin PIDsOf(tasks')
                ELSE /\ Count(last'.fired, t.PID) = 0
                     /\ \E j \in 1..Len(tasks') :
                           tasks'[j] = [t EXCEPT !.executeAt = E,
                                                 !.conditionMet = TRUE]]_vars

\* C13 amended: the first loop call, at T, sets executeAt to E = T + D on 32
\* bits, or to 1 when that sum is 0; no later call changes it; a loop call
\* runs the action exactly when (signed) now - E >= 0, once, and the task is
\* then gone
C13_ExecuteAtSetOnce ==
    [][(IsCall("loop") /\ ~sequentialMode) =>
         \A i \in TimedLooked :
            LET t == tasks[i]
                S == Add32(clock, t.postConditionDelay)
                E == IF t.executeAt /= 0 THEN t.executeAt
                     ELSE IF S = 0 THEN 1 ELSE S
            IN  IF Reached(clock, E)
                THEN /\ Count(last'.fired, t.PID) = 1
                     /\ t.PID \notin PIDsOf(tasks')
                ELSE /\ Count(last'.fired, t.PID) = 0
                     /\ \E j \in 1..Len(tasks') :
                           tasks'[j] = [t EXCEPT !.executeAt = E,
                                                 !.conditionMet = TRUE]]_vars

\* in parallel mode a loop call ran a timed task whose T + D was 0 and is
\* stored as 1: the clock is 100, not 0
C13_Witness ==
    /\ ~sequentialMode
    /\ last.op = "loop" /\ last.fired /= <<>>
    /\ last.gone = SeqToSet(last.fired)
    /\ clock = 100

\* C16: a timed task activated with now + D across the 2^32 wrap is not
\* dispatched by a loop call where (signed) now - executeAt < 0 and is
\* dispatched by the first loop call where it is >= 0
C16_SignedReadiness ==
    [][IsCall("loop") =>
         \A i \in TimedLooked :
            (tasks[i].conditionMet /\ tasks[i].executeAt /= 0) =>
               (Count(last'.fired, tasks[i].PID) = 1 <=>
                Sub32(clock, tasks[i].executeAt) >= 0)]_vars

\* a loop call before the wrap left a task waiting whose executeAt lies
\* after the wrap, where now >= executeAt holds as an unsigned comparison
C16_Witness ==
    /\ last.op = "loop" /\ last.path = "ran"
    /\ \E i \in 1..Len(tasks) :
          /\ tasks[i].conditionMet
          /\ Sub32(clock, tasks[i].executeAt) < 0
          /\ ~ULess(clock, tasks[i].executeAt)

\* C14: in sequential mode, set before the tasks are added, a loop call
\* dispatches at most one action, that of the task added first among those
\* stored (PIDs are handed out in increasing order here), and every task
\* behind the front one is not activated: executeAt = 0, conditionMet false
C14_SequentialFifo ==
    [][sequentialMode' =>
         /\ \A i \in 2..Len(tasks') :
               tasks'[i].executeAt = 0 /\ ~tasks'[i].conditionMet
         /\ IsCall("loop") =>
               /\ Len(last'.fired) <= 1
               /\ \A p \in SeqToSet(last'.fired) :
                     \A i \in Looked : p = tasks[i].PID
               /\ \A p \in SeqToSet(last'.fired) :
                     \A q \in PIDsOf(tasks) \ SeqToSet(tasksToRemove) : p <= q]_vars

\* in sequential mode a loop call ran the front task's action and the task
\* behind it, now at the front, is still not activated
C14_Witness ==
    /\ sequentialMode
    /\ last.op = "loop" /\ Len(last.fired) = 1
    /\ tasks /= <<>>
    /\ tasks[1].executeAt = 0 /\ ~tasks[1].conditionMet

\* C15: a task added with conditionWaitMs == 0 whose predicate is false, not
\* named on the ledger and not stopped, is left in the store as it is by a
\* loop call, and no timeout is reported for it, in either mode
C15_IndefiniteNeverTimesOut ==
    [][(IsCall("loop") /\ ~will_stop) =>
         \A i \in 1..Len(tasks) :
            (/\ tasks[i].conditionWait = 0
             /\ ~tasks[i].conditionMet
             /\ ~ConditionTrue(tasks[i], env)
             /\ tasks[i].PID \notin SeqToSet(tasksToRemove)) =>
               /\ \E j \in 1..Len(tasks') : tasks'[j] = tasks[i]
               /\ Count(last'.timeouts, tasks[i].PID) = 0]_vars

\* 200 ms after the start a task without deadline, its predicate false, is
\* still stored after a loop call that removed a task whose deadline passed
C15_Witness ==
    /\ last.op = "loop" /\ last.path = "ran"
    /\ clock = 1200
    /\ last.gone /= {} /\ last.gone \cap last.marked = {} /\ last.fired = <<>>
    /\ \E i \in 1..Len(tasks) :
          /\ tasks[i].conditionWait = 0
          /\ ~tasks[i].conditionMet
          /\ tasks[i].executeAt = 0

\* ------------------------------------------------------------------------
\* Specification SpecReent: either mode, tasks whose actions call
\* addTimedTask (delay 10 or 0, with or without a following stop) while loop
\* runs them
\* ------------------------------------------------------------------------
InitReent ==
    \E seq \in BOOLEAN : Starts(SetAndStartSequentialMode(Fresh, seq, 1000), 1000)

NextReent ==
    \/ CallAddTimedTask(CanAdd, {"add", "add0", "addStop"}, {0, 10}, {FALSE}, {0})
    \/ CallLoop
    \/ Advance({10}, 1000, Horizon \div 10)

SpecReent == InitReent /\ [][NextReent]_vars

\* C17: a task added by an action while loop runs that action is not
\* dispatched and not activated by that loop call, in either mode: every
\* action the call invokes belongs to a task stored before the call, and a
\* task it leaves in the store that was not there before has executeAt = 0
\* and conditionMet false
C17_AddedInsideWaitsForNextLoop ==
    [][IsCall("loop") =>
         /\ SeqToSet(last'.fired) \subseteq PIDsOf(tasks)
         /\ \A j \in 1..Len(tasks') :
               tasks'[j].PID \notin PIDsOf(tasks) =>
                  tasks'[j].executeAt = 0 /\ ~tasks'[j].conditionMet]_vars

\* a loop call ran an action and left the task that action added with delay
\* 0 in the store, not activated
C17_Witness ==
    /\ last.op = "loop" /\ last.fired /= <<>>
    /\ \E i \in 1..Len(tasks) :
          /\ tasks[i].action = "nop"
          /\ tasks[i].postConditionDelay = 0
          /\ tasks[i].executeAt = 0
          /\ tasks[i].PID \notin last.gone

\* ------------------------------------------------------------------------
\* Specification SpecTime: either mode, timed tasks due now, soon, later
\* than a minute and 2^31 ms ahead (written MinI32), timeToNextTask() called
\* between the other calls
\* ------------------------------------------------------------------------
InitTime ==
    \E seq \in BOOLEAN : Starts(SetAndStartSequentialMode(Fresh, seq, 1000), 1000)

NextTime ==
    \/ CallAddTimedTask(CanAdd, {"nop"}, {0, 100, 70000, MinI32}, {FALSE}, {0})
    \/ CallLoop
    \/ CallTimeToNextTask
    \/ Advance({100}, 1000, Horizon)

SpecTime == InitTime /\ [][NextTime]_vars

\* executeAt - now of the stored tasks as uint32_t, capped at one minute
Remaining ==
    {IF Sub32(tasks[i].executeAt, clock) < 0 \/ Sub32(tasks[i].executeAt, clock) > MAX_WAIT
     THEN MAX_WAIT ELSE Sub32(tasks[i].executeAt, clock) : i \in 1..Len(tasks)}

\* the call left the scheduler as it was
NoStateChange ==
    UNCHANGED <<tasks, sequentialMode, lastSequentialFinishTime, will_stop,
                tasksToRemove, nextPID, onHold, inLoop>>

\* C18 as claimed: timeToNextTask() returns 60000 for an empty store, 0 iff
\* some task has executeAt == 0 or (signed) now - executeAt >= 0, otherwise
\* the least executeAt - now capped at 60000; it changes no state
C18_ZeroIffDue ==
    [][IsCall("timeToNextTask") =>
         /\ NoStateChange
         /\ last'.ret =
               IF tasks = <<>> THEN MAX_WAIT
               ELSE IF \E i \in 1..Len(tasks) :
                          \/ tasks[i].executeAt = 0
                          \/ Reached(clock, tasks[i].executeAt)
                    THEN 0
                    ELSE CHOOSE m \in Remaining : \A x \in Remaining : m <= x]_vars

\* C18 amended: 0 iff some task has executeAt == 0 or (signed)
\* executeAt - now <= 0, which includes a task exactly 2^31 ms ahead
C18_ZeroIffNotAhead ==
    [][IsCall("timeToNextTask") =>
         /\ NoStateChange
         /\ last'.ret \in 0..MAX_WAIT
         /\ last'.ret =
               IF tasks = <<>> THEN MAX_WAIT
               ELSE IF \E i \in 1..Len(tasks) :
                          \/ tasks[i].executeAt = 0
                          \/ Sub32(tasks[i].executeAt, clock) <= 0
                    THEN 0
                    ELSE CHOOSE m \in Remaining : \A x \in Remaining : m <= x]_vars

\* timeToNextTask() returned the 100 ms left to the nearer of two activated
\* tasks
C18_Witness ==
    /\ last.op = "timeToNextTask" /\ last.ret = 100
    /\ Len(tasks) = 2
    /\ \E i \in 1..2 : Sub32(tasks[i].executeAt, clock) > MAX_WAIT

\* C19: removeTask(pid) returns true iff a task with that PID is stored at
\* the call, and the call leaves the store as it is: only the ledger grows,
\* by that PID, when it returns true (checked under SpecPid)
C19_RemoveTaskOnlyMarks ==
    [][IsCall("removeTask") =>
         /\ tasks' = tasks
         /\ UNCHANGED <<sequentialMode, lastSequentialFinishTime, will_stop,
                        nextPID, onHold, inLoop>>
         /\ last'.ok <=> last'.arg \in PIDsOf(tasks)
         /\ tasksToRemove' = IF last'.ok THEN Append(tasksToRemove, last'.arg)
                             ELSE tasksToRemove]_vars

\* removeTask() just returned false with a non-empty store, and earlier
\* returned true for a task that is still stored
C19_Witness ==
    /\ last.op = "removeTask" /\ ~last.ok
    /\ tasks /= <<>>
    /\ removed \cap PIDsOf(tasks) /= {}

\* C20: once removeTask(pid) has returned true outside loop, no loop call
\* invokes that task's action, and the first loop call that is not cut short
\* by hold leaves the store without the task, due or not (checked under Spec)
C20_RemovedNeverRuns ==
    [][IsCall("loop") =>
         \A p \in removed :
            /\ Count(last'.fired, p) = 0
            /\ ~onHold => p \notin PIDsOf(tasks')]_vars

\* a loop call, will_stop not set, erased a task named by removeTask() that
\* was ready to run, without running it
C20_Witness ==
    /\ last.op = "loop" /\ last.path = "ran"
    /\ last.gone \cap last.marked \cap last.due /= {}
    /\ \A p \in last.marked : Count(last.fired, p) = 0

\* ------------------------------------------------------------------------
\* Specification SpecInner: either mode, timed tasks (repeating ones in
\* parallel mode) whose actions call removeTask(1) or
\* setRepeatingTaskInterval(1, 50) while loop runs them, and
\* setRepeatingTaskInterval called from outside on stored and absent PIDs
\* ------------------------------------------------------------------------
InitInner ==
    \E seq \in BOOLEAN : Starts(SetAndStartSequentialMode(Fresh, seq, 1000), 1000)

NextInner ==
    \/ CallAddTimedTask(CanAdd, {"remove1", "setInt1"}, {0}, BOOLEAN, {100})
    \/ CallSetRepeatingTaskInterval({InnerInterval}, {0})
    \/ CallLoop
    \/ Advance({100}, 1000, Horizon \div 2)

SpecInner == InitInner /\ [][NextInner]_vars

\* the calls of op that the actions run by the loop call just made saw
\* return ok
InnerCalls(op, ok) ==
    {k \in 1..Len(last'.inner) : last'.inner[k] = [op |-> op, ok |-> ok]}

\* C21: removeTask called by an action that loop runs returns false and
\* leaves the ledger empty, and no loop call takes a task out of the store
\* whose action it has not run
C21_RemoveInsideRefuses ==
    [][IsCall("loop") =>
         /\ InnerCalls("removeTask", TRUE) = {}
         /\ tasksToRemove' = <<>>
         /\ \A p \in PIDsOf(tasks) \ PIDsOf(tasks') : Count(last'.fired, p) > 0]_vars

\* the store with every action that calls setRepeatingTaskInterval replaced
\* by one that does nothing
Quiet(ts) ==
    [i \in 1..Len(ts) |->
       IF ts[i].action = "setInt1" THEN [ts[i] EXCEPT !.action = "nop"] ELSE ts[i]]

\* C22: setRepeatingTaskInterval returns false and changes no task field
\* when an action run by loop calls it (the loop call leaves the store as it
\* would with that action doing nothing), when no task has the PID and when
\* the task with the PID does not repeat
C22_SetIntervalRefuses ==
    [][/\ IsCall("loop") =>
             /\ InnerCalls("setRepeatingTaskInterval", TRUE) = {}
             /\ Quiet(tasks') =
                   LoopCall([Sched EXCEPT !.tasks = Quiet(tasks)], clock, env).tasks
       /\ IsCall("setRepeatingTaskInterval") =>
             LET i == FindByPID(tasks, last'.arg)
             IN  (i = 0 \/ ~tasks[i].repeat) =>
                    /\ ~last'.ok
                    /\ tasks' = tasks
                    /\ UNCHANGED <<sequentialMode, lastSequentialFinishTime,
                                   will_stop, tasksToRemove, nextPID, onHold,
                                   inLoop>>]_vars

\* a loop call ran an action whose setRepeatingTaskInterval(1, 50) returned
\* false although task 1 is stored and repeats, and task 1 keeps its
\* interval of 100
C22_Witness ==
    /\ last.op = "loop"
    /\ \E k \in 1..Len(last.inner) :
          last.inner[k] = [op |-> "setRepeatingTaskInterval", ok |-> FALSE]
    /\ \E i \in 1..Len(tasks) :
          tasks[i].PID = 1 /\ tasks[i].repeat /\ tasks[i].interval = 100

\* ------------------------------------------------------------------------
\* Specification SpecInt: parallel mode, repeating timed tasks whose
\* interval is changed from outside loop, the clock moving in ticks of 10 ms
\* ------------------------------------------------------------------------
InitInt == Starts(Fresh, 1000)

NextInt ==
    \/ CallAddTimedTask(CanAdd, {"nop"}, {0}, {TRUE}, {20})
    \/ CallSetRepeatingTaskInterval({10, 20}, {})
    \/ CallLoop
    \/ Advance({10}, 1000, (3 * Horizon) \div 10)

SpecInt == InitInt /\ [][NextInt]_vars

\* C23: setRepeatingTaskInterval(pid, i) on a repeating task, outside loop,
\* returns true, sets interval and postConditionDelay to i and executeAt to
\* 0 and changes nothing else; with loop called at every tick and first at
\* A after the change, the task then fires at the loop calls made at A + i,
\* A + 2i, A + 3i, ...
C23_IntervalChange ==
    [][/\ IsCall("setRepeatingTaskInterval") =>
             LET i == FindByPID(tasks, last'.arg)
             IN  (i /= 0 /\ tasks[i].repeat) =>
                    /\ last'.ok
                    /\ tasks' = [tasks EXCEPT ![i].interval = last'.val,
                                              ![i].postConditionDelay = last'.val,
                                              ![i].executeAt = 0]
                    /\ UNCHANGED <<sequentialMode, lastSequentialFinishTime,
                                   will_stop, tasksToRemove, nextPID, onHold,
                                   inLoop>>
       /\ \A i \in FiredOnTime :
             LET r == reps[tasks[i].PID]
                 A == IF r.first = <<>> THEN clock ELSE r.first[1]
             IN  (r.set /\ r.n < MaxRuns) =>
                    clock = A + r.delay + r.n * r.delay]_vars

\* C24: a loop call made while the scheduler is on hold invokes no action,
\* no timeout callback and no predicate and leaves every member as it was;
\* hold() and resume() set and clear onHold, whatever it was, and change
\* nothing else (checked under Spec)
C24_HoldFreezes ==
    [][/\ (IsCall("loop") /\ onHold) =>
             /\ last'.fired = <<>> /\ last'.timeouts = <<>> /\ last'.probed = {}
             /\ UNCHANGED <<tasks, tasksToRemove, will_stop,
                            lastSequentialFinishTime, sequentialMode, nextPID,
                            onHold, inLoop>>
       /\ IsCall("hold") =>
             /\ onHold'
             /\ UNCHANGED <<tasks, tasksToRemove, will_stop,
                            lastSequentialFinishTime, sequentialMode, nextPID,
                            inLoop>>
       /\ IsCall("resume") =>
             /\ ~onHold'
             /\ UNCHANGED <<tasks, tasksToRemove, will_stop,
                            lastSequentialFinishTime, sequentialMode, nextPID,
                            inLoop>>]_vars

\* a loop call was made on hold with a task ready to run, will_stop set and
\* the ledger not empty, and all of that is still so
C24_Witness ==
    /\ last.op = "loop" /\ last.path = "idle"
    /\ onHold /\ will_stop /\ tasksToRemove /= <<>>
    /\ last.due /= {}
    /\ last.due \subseteq PIDsOf(tasks)

\* ------------------------------------------------------------------------
\* Specification SpecStop: either mode, timed tasks, repeating ones among
\* them in parallel mode, whose actions do nothing, call stop(), or call
\* stop() and then add a task
\* ------------------------------------------------------------------------
InitStop ==
    \E seq \in BOOLEAN : Starts(SetAndStartSequentialMode(Fresh, seq, 1000), 1000)

NextStop ==
    \/ CallAddTimedTask(CanAdd, {"nop", "stop"}, {0, 10}, {TRUE}, {0})
    \/ CallAddTimedTask(CanAdd, {"nop", "stop", "stopAdd"}, {0, 10}, {FALSE}, {0})
    \/ CallLoop
    \/ Advance({10}, 1000, Horizon \div 10)

SpecStop == InitStop /\ [][NextStop]_vars

\* C25: every call keeps the stored tasks in the order they have and puts
\* the tasks it adds behind them, a rescheduled repeating task included, so
\* the store is in insertion order; a loop call in parallel mode invokes the
\* actions in the order their tasks have in the store
C25_DispatchInInsertionOrder ==
    [][/\ \A i, j \in 1..Len(tasks') :
             LET a == FindByPID(tasks, tasks'[i].PID)
                 b == FindByPID(tasks, tasks'[j].PID)
             IN  /\ (a /= 0 /\ b /= 0) => (i < j <=> a < b)
                 /\ (a /= 0 /\ b = 0) => i < j
       /\ (IsCall("loop") /\ ~sequentialMode) =>
             \A k, l \in 1..Len(last'.fired) :
                k < l => FindByPID(tasks, last'.fired[k]) <
                         FindByPID(tasks, last'.fired[l])]_vars

\* in parallel mode a loop call ran two actions, first that of a repeating
\* task that has run before and is still at the front of the store, then
\* that of a task added later
C25_Witness ==
    /\ ~sequentialMode
    /\ last.op = "loop" /\ Len(last.fired) = 2
    /\ tasks /= <<>>
    /\ tasks[1].PID = last.fired[1]
    /\ tasks[1].repeat
    /\ reps[tasks[1].PID].n >= 2

\* what the actions that call stop() are
StopKinds == {"stop", "stopAdd", "addStop"}

\* the action of the k-th task the loop call just made ran
FiredAction(k) == tasks[FindByPID(tasks, last'.fired[k])].action

\* C26: in parallel mode, when an action run by loop calls stop(), no
\* action is invoked after it in that loop call, and when the call returns
\* no task stored at the stop() call is left, the stopping task and
\* repeating tasks included, will_stop is false and the ledger is empty
C26_StopInsideParallel ==
    [][(IsCall("loop") /\ ~sequentialMode /\ last'.atStop /= {}) =>
         /\ \A k \in 1..Len(last'.fired) :
               FiredAction(k) \in StopKinds <=> k = Len(last'.fired)
         /\ PIDsOf(tasks) \subseteq last'.atStop
         /\ PIDsOf(tasks') \cap last'.atStop = {}
         /\ ~will_stop' /\ tasksToRemove' = <<>>]_vars

\* in parallel mode a loop call ran one action, which called stop() and
\* then added a task: a task that was ready was not run, a repeating task
\* went with the rest, and only the added task is stored
C26_Witness ==
    /\ ~sequentialMode
    /\ last.op = "loop" /\ Len(last.fired) = 1
    /\ Cardinality(last.atStop) = 2
    /\ last.due \ SeqToSet(last.fired) /= {}
    /\ last.gone = last.atStop
    /\ last.gone \cap last.recur /= {}
    /\ Len(tasks) = 1

InitLatch ==
    \E seq \in BOOLEAN : Starts(SetAndStartSequentialMode(Fresh, seq, -200), -200)

NextLatch ==
    \/ CallAddConditionalTimedTask(CanAdd, {"nop"}, {"env"}, {0, 100},
                                   {0, 100}, {FALSE})
    \/ CallLoop
    \/ SetEnv
    \/ Advance({100}, -200, (3 * Horizon) \div 2)

SpecLatch == InitLatch /\ [][NextLatch]_vars

\* C28 as claimed: in sequential mode a front task waiting with deadline W
\* for a predicate that is false is removed by a loop call exactly when
\* (signed) now - (lastSequentialFinishTime + W) >= 0
C28_DeadlineIsFinishPlusWait ==
    [][(IsCall("loop") /\ sequentialMode) =>
         \A i \in Waiting :
            (tasks[i].PID \notin PIDsOf(tasks')) <=>
            Sub32(clock, Add32(lastSequentialFinishTime, tasks[i].conditionWait)) >= 0]_vars

\* the deadline lastSequentialFinishTime + W as it is stored
StoredDeadline(F, W) == IF Add32(F, W) = 0 THEN 1 ELSE Add32(F, W)

\* C28 amended: the deadline is lastSequentialFinishTime + W on 32 bits, 1
\* when that sum is 0, set by the first loop call that sees the task at the
\* front and stored in executeAt; a loop call removes the waiting front
\* task exactly when (signed) now - deadline >= 0, which the first call that
\* looks at it can do, and then sets lastSequentialFinishTime to now
C28_DeadlineFromLastFinish ==
    [][(IsCall("loop") /\ sequentialMode) =>
         \A i \in Waiting :
            LET t   == tasks[i]
                due == StoredDeadline(lastSequentialFinishTime, t.conditionWait)
            IN  /\ t.executeAt \in {0, due}
                /\ IF Sub32(clock, due) >= 0
                   THEN /\ t.PID \notin PIDsOf(tasks')
                        /\ last'.fired = <<>>
                        /\ lastSequentialFinishTime' = clock
                   ELSE /\ tasks' = [tasks EXCEPT ![i].executeAt = due]
                        /\ UNCHANGED lastSequentialFinishTime]_vars

\* in sequential mode a loop call removed by timeout, without running it,
\* a task that no loop call had looked at before
C28_Witness ==
    /\ sequentialMode
    /\ last.op = "loop" /\ last.fired = <<>>
    /\ last.gone /= {}
    /\ last.gone \subseteq last.fresh
    /\ lastSequentialFinishTime = clock

\* C29 as claimed: a loop call that finds conditionMet set on a task does not
\* call its predicate and does not time it out; the action of a task whose
\* predicate a loop call at T found true is invoked by the first loop call
\* with now >= T + postConditionDelay, that same call included
C29_LatchThenFireAtDelay ==
    [][IsCall("loop") =>
         \A i \in Looked :
            LET t == tasks[i]
                E == IF t.conditionMet THEN t.executeAt
                     ELSE Add32(clock, t.postConditionDelay)
            IN  (t.conditionMet \/ env) =>
                   /\ t.conditionMet => t.PID \notin last'.probed
                   /\ Count(last'.timeouts, t.PID) = 0
                   /\ IF Sub32(clock, E) >= 0
                      THEN /\ Count(last'.fired, t.PID) = 1
                           /\ t.PID \notin PIDsOf(tasks')
                      ELSE /\ Count(last'.fired, t.PID) = 0
                           /\ \E j \in 1..Len(tasks') :
                                 tasks'[j] = [t EXCEPT !.conditionMet = TRUE,
                                                       !.executeAt = E]]_vars

\* C29 amended: the loop call at T that finds the predicate true sets
\* conditionMet and executeAt = T + postConditionDelay on 32 bits (1 when
\* that is 0); it invokes the action itself only in parallel mode, for a
\* task without deadline that was not set up, when executeAt is reached;
\* otherwise the action is invoked by the first later loop call with
\* (signed) now - executeAt >= 0.  A loop call that finds conditionMet set
\* leaves the task as it is until then: no predicate call, no timeout
C29_LatchThenFireAtExecuteAt ==
    [][IsCall("loop") =>
         \A i \in Looked :
            LET t == tasks[i]
                S == Add32(clock, t.postConditionDelay)
                E == IF t.conditionMet THEN t.executeAt
                     ELSE IF S = 0 THEN 1 ELSE S
                inFirstPass == /\ ~sequentialMode
                               /\ t.executeAt = 0 /\ t.conditionWait <= 0
            IN  (t.conditionMet \/ env) =>
                   /\ t.conditionMet => t.PID \notin last'.probed
                   /\ Count(last'.timeouts, t.PID) = 0
                   /\ IF (t.conditionMet \/ inFirstPass) /\ Sub32(clock, E) >= 0
                      THEN /\ Count(last'.fired, t.PID) = 1
                           /\ t.PID \notin PIDsOf(tasks')
                      ELSE /\ Count(last'.fired, t.PID) = 0
                           /\ \E j \in 1..Len(tasks') :
                                 tasks'[j] = [t EXCEPT !.conditionMet = TRUE,
                                                       !.executeAt = E]]_vars

\* a loop call left a task alone, without calling its predicate, that has
\* conditionMet set and waits for its delay, while the predicate is false
\* and the deadline it was given (in sequential mode
\* lastSequentialFinishTime + conditionWait) has passed
C29_Witness ==
    /\ sequentialMode /\ ~env
    /\ last.op = "loop" /\ last.path = "ran"
    /\ tasks /= <<>>
    /\ tasks[1].conditionMet
    /\ tasks[1].conditionWait > 0
    /\ tasks[1].PID \notin last.probed
    /\ Sub32(clock, Add32(lastSequentialFinishTime, tasks[1].conditionWait)) >= 0
    /\ Sub32(clock, tasks[1].executeAt) < 0

\* ------------------------------------------------------------------------
\* Specification SpecZero: either mode, started 200 ms before the 32-bit
\* clock wrap, timed tasks (repeating ones in parallel mode), tasks waiting
\* with and without deadline for a condition that stays false, and
\* setRepeatingTaskInterval called from outside loop
\* ------------------------------------------------------------------------
InitZero ==
    \E seq \in BOOLEAN : Starts(SetAndStartSequentialMode(Fresh, seq, -200), -200)

NextZero ==
    \/ CallAddTimedTask(CanAdd, {"nop"}, {100}, BOOLEAN, {100})
    \/ CallAddConditionalTask(CanAdd, {"nop"}, {"false"}, {0, 100}, {FALSE})
    \/ CallSetRepeatingTaskInterval({100}, {})
    \/ CallLoop
    \/ Advance({100}, -200, Horizon)

SpecZero == InitZero /\ [][NextZero]_vars

\* C30 as claimed: every stored task with conditionMet set has executeAt /= 0,
\* and a task whose condition a loop call finds met gets executeAt = now +
\* postConditionDelay, 1 when that is 0
C30_ConditionMetHasExecuteAt ==
    [][/\ \A j \in 1..Len(tasks') :
             tasks'[j].conditionMet => tasks'[j].executeAt /= 0
       /\ IsCall("loop") =>
             \A j \in 1..Len(tasks') :
                LET i == FindByPID(tasks, tasks'[j].PID)
                    S == Add32(clock, tasks[i].postConditionDelay)
                IN  (/\ i /= 0
                     /\ ~tasks[i].conditionMet \/ tasks[i].executeAt = 0
                     /\ tasks'[j].conditionMet) =>
                       tasks'[j].executeAt = IF S = 0 THEN 1 ELSE S]_vars

\* the repeating task was given a new interval by setRepeatingTaskInterval
\* and no loop call has processed it since
IntervalJustSet(t, runs) ==
    /\ t.repeat
    /\ t.PID \in DOMAIN runs
    /\ runs[t.PID].set /\ runs[t.PID].first = <<>>

\* C30 amended: a stored task with conditionMet set has executeAt /= 0 unless
\* it is a repeating task whose interval setRepeatingTaskInterval has changed
\* and that loop has not processed since: that task has executeAt = 0
\* whatever conditionMet is; a task without deadline whose condition is not
\* met has executeAt = 0; and a task whose condition a loop call finds met
\* gets executeAt = now + postConditionDelay, 1 when that is 0
C30_ExecuteAtZeroUntilSetUp ==
    [][/\ \A j \in 1..Len(tasks') :
             LET t == tasks'[j]
             IN  /\ (t.conditionMet /\ ~IntervalJustSet(t, reps')) => t.executeAt /= 0
                 /\ IntervalJustSet(t, reps') => t.executeAt = 0
                 /\ (~t.conditionMet /\ t.conditionWait <= 0) => t.executeAt = 0
       /\ IsCall("loop") =>
             \A j \in 1..Len(tasks') :
                LET i == FindByPID(tasks, tasks'[j].PID)
                    S == Add32(clock, tasks[i].postConditionDelay)
                IN  (/\ i /= 0
                     /\ ~tasks[i].conditionMet \/ tasks[i].executeAt = 0
                     /\ tasks'[j].conditionMet) =>
                       tasks'[j].executeAt = IF S = 0 THEN 1 ELSE S]_vars

\* a loop call found the condition of a repeating task met, after
\* setRepeatingTaskInterval had changed its interval, at a time where now +
\* postConditionDelay is 0, and stored executeAt = 1
C30_Witness ==
    /\ last.op = "loop" /\ last.path = "ran"
    /\ \E i \in 1..Len(tasks) :
          /\ tasks[i].repeat
          /\ tasks[i].conditionMet
          /\ tasks[i].executeAt = 1
          /\ Add32(clock, tasks[i].postConditionDelay) = 0
          /\ reps[tasks[i].PID].set
          /\ reps[tasks[i].PID].first = <<clock>>

\* ------------------------------------------------------------------------
\* Specification SpecOnce: either mode, one-shot tasks whose actions add a
\* task, call stop() or call removeTask(1), repeating tasks (parallel mode)
\* that do nothing, with removeTask() and stop() from outside
\* ------------------------------------------------------------------------
InitOnce ==
    \E seq \in BOOLEAN : Starts(SetAndStartSequentialMode(Fresh, seq, 1000), 1000)

NextOnce ==
    \/ CallAddTimedTask(CanAdd, {"add0", "stop", "remove1"}, {0}, {FALSE}, {0})
    \/ CallAddTimedTask(CanAdd, {"nop"}, {10}, {TRUE}, {10})
    \/ CallRemoveTask(CanMark, PIDsOf(tasks))
    \/ CallStop(CanMark)
    \/ CallLoop
    \/ Advance({10}, 1000, Horizon \div 20)

SpecOnce == InitOnce /\ [][NextOnce]_vars

\* C31: a loop call invokes the action of a non-repeating task at most once,
\* and the task is not in the store when that call returns, whatever the
\* action does (stop() and removeTask on itself included), in either mode
C31_NonRepeatingRunsOnce ==
    [][IsCall("loop") =>
         \A i \in 1..Len(tasks) :
            (~tasks[i].repeat /\ tasks[i].PID \in SeqToSet(last'.fired)) =>
               /\ Count(last'.fired, tasks[i].PID) = 1
               /\ tasks[i].PID \notin PIDsOf(tasks')]_vars

\* a loop call in parallel mode invoked only the action of task 1, which
\* called removeTask(1) and got true, and task 1 is gone
C31_Witness ==
    /\ last.op = "loop" /\ ~sequentialMode
    /\ last.fired = <<1>>
    /\ Len(last.inner) = 1 /\ last.inner[1].op = "removeTask" /\ last.inner[1].ok
    /\ 1 \notin PIDsOf(tasks)
    /\ 1 \notin last.recur

\* ------------------------------------------------------------------------
\* Specification SpecEffect: parallel mode, one-shot tasks whose actions do
\* nothing, call removeTask(2), or add a task and read taskCount(), and
\* repeating tasks that do nothing
\* ------------------------------------------------------------------------
InitEffect == Starts(Fresh, 1000)

NextEffect ==
    \/ CallAddTimedTask(CanAdd, {"nop", "remove2", "addSee"}, {0, 10}, {FALSE}, {0})
    \/ CallAddTimedTask(CanAdd, {"nop"}, {0, 10}, {TRUE}, {10})
    \/ CallLoop
    \/ Advance({10}, 1000, Horizon \div 10)

SpecEffect == InitEffect /\ [][NextEffect]_vars

\* C32: in a parallel loop call whose actions call removeTask(Y) and get
\* true, Y's action is still invoked by this call when Y was ready at its
\* entry, and when Y's action is not invoked Y is still stored, with its PID
\* on the ledger, when the call returns; an action that calls addTimedTask
\* sees taskCount() grown as soon as the add has returned
C32_RemoveWaitsAddIsSeen ==
    [][(IsCall("loop") /\ ~sequentialMode) =>
         \A k \in 1..Len(last'.inner) :
            /\ (last'.inner[k].op = "removeTask" /\ last'.inner[k].ok) =>
                  /\ 2 \in last'.due => 2 \in SeqToSet(last'.fired)
                  /\ 2 \notin SeqToSet(last'.fired) =>
                        /\ 2 \in PIDsOf(tasks')
                        /\ 2 \in SeqToSet(tasksToRemove')
            /\ last'.inner[k].op = "taskCount" => last'.inner[k].ok]_vars

\* a parallel loop call that both tasks were ready for invoked task 1, whose
\* action called removeTask(2) and got true, and then task 2, whose action
\* added a task and saw taskCount() grown
C32_Witness ==
    /\ last.op = "loop" /\ ~sequentialMode
    /\ last.due = {1, 2}
    /\ last.fired = <<1, 2>>
    /\ Len(last.inner) = 2
    /\ last.inner[1].op = "removeTask" /\ last.inner[1].ok
    /\ last.inner[2].op = "taskCount" /\ last.inner[2].ok

\* ------------------------------------------------------------------------
\* Specification SpecStale: parallel mode, from a fresh scheduler and from one
\* whose first task (PID 1, waiting for the environment, its action calling
\* removeTask(1)) is still stored when the PID counter has reached 65535
\* ------------------------------------------------------------------------
OldestWaits ==
    [Fresh EXCEPT !.tasks = <<NewTask(1, "remove1", FALSE, FALSE, 0, "env", 0, 0)>>,
                  !.nextPID = PID_MOD - 1]

InitStale == \E S \in {Fresh, OldestWaits} : Starts(S, 1000)

NextStale ==
    \/ CallAddConditionalTask(CanAddPid, {"remove1", "nop"}, {"env"}, {0}, {FALSE})
    \/ CallAddTimedTask(CanAddPid, {"nop"}, {0}, {FALSE}, {0})
    \/ CallRemoveTask(CanMark, PIDsOf(tasks))
    \/ CallStop(CanMark)
    \/ CallLoop
    \/ CallHold
    \/ CallResume
    \/ SetEnv

SpecStale == InitStale /\ [][NextStale]_vars

\* C33: the ledger drain of a loop call erases no task that was added after
\* its PID was put on the ledger and that no removeTask() or stop() has
\* named since
C33_DrainSparesLaterTasks ==
    [][IsCall("loop") => last'.gone \cap last.late = {}]_vars

\* C34: in sequential mode, set before any task is added, every stored task
\* behind the front one has executeAt = 0 and conditionMet false, and a loop
\* call calls the predicate, the action and the timeout callback of no task
\* but the front one and leaves every task behind it as it was
C34_OnlyFrontParticipates ==
    [][sequentialMode' =>
         /\ \A i \in 2..Len(tasks') :
               tasks'[i].executeAt = 0 /\ ~tasks'[i].conditionMet
         /\ IsCall("loop") =>
               /\ \A p \in last'.probed \cup SeqToSet(last'.fired)
                                         \cup SeqToSet(last'.timeouts) :
                     \E i \in Looked : p = tasks[i].PID
               /\ \A i \in 1..Len(tasks) :
                     (i \notin Looked /\ tasks[i].PID \in PIDsOf(tasks')) =>
                        tasks'[FindByPID(tasks', tasks[i].PID)] = tasks[i]]_vars

\* in sequential mode a loop call called the predicate of the front task,
\* found it true and set the task up, while the task behind it, whose
\* predicate reads the same environment, was left untouched
C34_Witness ==
    /\ sequentialMode
    /\ last.op = "loop" /\ last.fired = <<>>
    /\ Len(tasks) >= 2
    /\ last.probed = {tasks[1].PID}
    /\ tasks[1].conditionMet /\ tasks[1].executeAt /= 0
    /\ env /\ tasks[2].condition = "env"
    /\ tasks[2].executeAt = 0 /\ ~tasks[2].conditionMet

\* ------------------------------------------------------------------------
\* Specification SpecRace: the store of SpecCap, with addTimedTask of the
\* main context taken one critical section at a time (taskCount() test,
\* getAndIncrementPID, push_back) and an addTimedTask from interrupt context
\* that runs from entry to return between any two of them
\* ------------------------------------------------------------------------
InitRace == Starts(NearFull, 1000)

\* addTimedTask up to the end of its taskCount() test, which returns 0 on a
\* full store; otherwise the local Task t is filled in
BeginAddTimedTask(Acts, Delays) ==
    /\ adding = <<>>
    /\ CanAddCap
    /\ \E a \in Acts, d \in Delays :
         IF TaskCount(Sched) >= MAX_TASKS
         THEN /\ Outcome("addTimedTask", [Sched EXCEPT !.ret = 0], 0)
              /\ UNCHANGED <<adding, stopSnap>>
         ELSE /\ adding' = <<[pc |-> "pid",
                              t |-> NewTask(0, a, FALSE, FALSE, 0, "true", 0, d)]>>
              /\ UNCHANGED <<tasks, sequentialMode, lastSequentialFinishTime,
                             will_stop, tasksToRemove, nextPID, onHold, inLoop,
                             clock, env, last, stopSnap, addedAt, reps, removed,
                             sinceLoop>>

\* t.PID = getAndIncrementPID()
TakePID ==
    /\ adding /= <<>> /\ adding[1].pc = "pid"
    /\ \E P \in {GetAndIncrementPID(Sched)} :
         /\ nextPID' = P.nextPID
         /\ adding' = <<[pc |-> "push", t |-> [adding[1].t EXCEPT !.PID = P.ret]]>>
    /\ UNCHANGED <<tasks, sequentialMode, lastSequentialFinishTime, will_stop,
                   tasksToRemove, onHold, inLoop, clock, env, last, stopSnap,
                   addedAt, reps, removed, sinceLoop>>

\* tasks.push_back(t); return t.PID
PushBack ==
    /\ adding /= <<>> /\ adding[1].pc = "push"
    /\ Outcome("addTimedTask",
               [Sched EXCEPT !.tasks = Append(@, adding[1].t),
                             !.ret = adding[1].t.PID],
               adding[1].t.PID)
    /\ adding' = <<>>
    /\ UNCHANGED stopSnap

\* loop() called by the main context, which is not inside an add then
LoopFromMain == adding = <<>> /\ CallLoop

NextRace ==
    \/ BeginAddTimedTask({"nop"}, {0, 10})
    \/ TakePID
    \/ PushBack
    \/ CallAddTimedTask(CanAddCap, {"nop"}, {0, 10}, {FALSE}, {0})
    \/ LoopFromMain

SpecRace == InitRace /\ [][NextRace]_vars

\* C35: with an interrupt-context add running between the critical sections
\* of a main-context add, the store never holds more than MAX_TASKS (124)
\* tasks and no two stored tasks share a PID
C35_RacingAddsKeepBounds ==
    /\ Len(tasks) <= MAX_TASKS
    /\ \A i, j \in 1..Len(tasks) : i /= j => tasks[i].PID /= tasks[j].PID

\* every stop() still pending was called on an empty store
StopOnEmptyPending == will_stop /\ stopSnap = {}

\* C36 as claimed: a stop() called on an empty store stays pending over the
\* loop calls made while the store is empty; the first loop call after a
\* task is added clears will_stop, invokes no action and, no removeTask()
\* being pending, leaves the store as it was
C36_StopOnEmptyConsumedAfterAdd ==
    [][(IsCall("loop") /\ StopOnEmptyPending /\ removed = {}) =>
         /\ tasks' = tasks
         /\ last'.fired = <<>> /\ last'.timeouts = <<>>
         /\ will_stop' <=> (tasks = <<>>)]_vars

\* C36 amended: a stop() called on an empty store stays pending over the
\* loop calls made while the store is empty or the scheduler is on hold,
\* which change nothing; the first loop call made with a task stored and the
\* scheduler not on hold clears will_stop and the ledger, invokes no action
\* and erases the tasks named on the ledger only: with no removeTask()
\* pending the store is left as it was
C36_StopOnEmptyConsumedUnlessHeld ==
    [][(IsCall("loop") /\ StopOnEmptyPending) =>
         /\ last'.fired = <<>> /\ last'.timeouts = <<>>
         /\ UNCHANGED <<lastSequentialFinishTime, nextPID, onHold>>
         /\ IF tasks = <<>> \/ onHold
            THEN will_stop' /\ UNCHANGED <<tasks, tasksToRemove>>
            ELSE /\ ~will_stop' /\ tasksToRemove' = <<>>
                 /\ tasks' = SelectSeq(tasks,
                                LAMBDA t : t.PID \notin SeqToSet(tasksToRemove))
                 /\ removed = {} => tasks' = tasks]_vars

\* a loop call found a stop() pending that had been called on an empty
\* store, cleared will_stop and left the task added since in the store, not
\* set up
C36_Witness ==
    /\ last.op = "loop" /\ last.path = "stopped"
    /\ last.marked = {} /\ last.gone = {}
    /\ ~will_stop
    /\ tasks /= <<>> /\ tasks[1].executeAt = 0

\* ------------------------------------------------------------------------
\* Specification SpecLive: parallel mode, a clock that moves in steps of
\* 2^30 ms round the 32-bit range, at most one step between two loop calls,
\* timed tasks with delays 100 and 2^31, one-shot and repeating,
\* setRepeatingTaskInterval from outside; loop keeps being called and the
\* clock keeps moving
\* ------------------------------------------------------------------------
Quarter == 1073741824       \* 2^30 ms

\* adds are explored for the first MaxLive PIDs, with one repeating task
CanAddLive == Len(tasks) < MaxLive /\ nextPID <= MaxLive

InitLive == Starts(Fresh, 0)

\* millis() moves on by 2^30 ms, staying less than 2^31 ms away from the
\* last loop call
Tick ==
    /\ sinceLoop < Quarter
    /\ clock' = Add32(clock, Quarter)
    /\ sinceLoop' = sinceLoop + Quarter
    /\ UNCHANGED <<tasks, sequentialMode, lastSequentialFinishTime, will_stop,
                   tasksToRemove, nextPID, onHold, inLoop, env, last,
                   stopSnap, addedAt, reps, removed, adding>>

NextLive ==
    \/ CallAddTimedTask(CanAddLive, {"nop"}, {100, MinI32}, {FALSE}, {0})
    \/ CallAddTimedTask(CanAddLive /\ RepeatPIDs(tasks) = {}, {"nop"}, {100},
                        {TRUE}, {Quarter})
    \/ RepeatPIDs(tasks) /= {} /\ CallSetRepeatingTaskInterval({Quarter}, {})
    \/ CallLoop
    \/ Tick

\* the driver keeps calling loop, and millis() moves on whenever it has stood
\* still since the last loop call
SpecLive ==
    InitLive /\ [][NextLive]_vars /\ []<><<CallLoop>>_vars /\ WF_vars(Tick)

\* addTimedTask has just returned p
AddedTimed(p) == last.op = "addTimedTask" /\ last.ret = p

\* a loop call has just invoked the action of task p
FiredBy(p) == last.op = "loop" /\ p \in SeqToSet(last.fired)

\* setRepeatingTaskInterval(p, i) has just returned true
IntervalSetOn(p) ==
    last.op = "setRepeatingTaskInterval" /\ last.ok /\ last.arg = p

\* C37 as claimed: in parallel mode, loop being called again and again with
\* the clock moving less than 2^31 ms between two calls, no hold, stop or
\* removeTask, every task added by addTimedTask has its action invoked at
\* some later time, and every non-repeating one leaves the store
C37_TimedTasksRun ==
    \A p \in 1..MaxLive :
       /\ AddedTimed(p) ~> FiredBy(p)
       /\ (AddedTimed(p) /\ p \notin RepeatPIDs(tasks)) ~> (p \notin PIDsOf(tasks))

\* C37 amended: in parallel mode, loop being called again and again with
\* the clock moving less than 2^31 ms between two calls, no hold, stop or
\* removeTask, every task added by addTimedTask on which
\* setRepeatingTaskInterval stops being called has its action invoked at
\* some later time, and every non-repeating one leaves the store
C37_TimedTasksRunUnlessReset ==
    \A p \in 1..MaxLive :
       /\ (<>[](~IntervalSetOn(p))) => (AddedTimed(p) ~> FiredBy(p))
       /\ (AddedTimed(p) /\ p \notin RepeatPIDs(tasks)) ~> (p \notin PIDsOf(tasks))

\* a loop call invoked an action and erased a task while a repeating task
\* whose interval had been changed has run twice since the change
C37_Witness ==
    /\ last.op = "loop" /\ last.fired /= <<>> /\ last.gone /= {}
    /\ \E p \in DOMAIN reps : reps[p].set /\ reps[p].n >= 2

\* ------------------------------------------------------------------------
\* Specification SpecGuard: either mode, timed tasks whose actions do nothing
\* or call stop(), a conditional task whose condition stays false until its
\* deadline, stop() from outside, hold and resume: every exit path of loop()
\* ------------------------------------------------------------------------
InitGuard ==
    \E seq \in BOOLEAN : Starts(SetAndStartSequentialMode(Fresh, seq, 1000), 1000)

NextGuard ==
    \/ CallAddTimedTask(CanAdd, {"nop", "stop"}, {0, 10}, {FALSE}, {0})
    \/ CallAddConditionalTask(CanAdd, {"nop"}, {"false"}, {10}, {FALSE})
    \/ CallStop(CanMark)
    \/ CallHold
    \/ CallResume
    \/ CallLoop
    \/ Advance({10}, 1000, Horizon \div 10)

SpecGuard == InitGuard /\ [][NextGuard]_vars

\* the PIDs of the action calls noted in ctx, in the order of the calls
InvokedPIDs(ctx) == [k \in 1..Len(ctx) |-> ctx[k].pid]

\* C38: at every action call a loop call made, in parallel or sequential
\* mode, the critical section was not held and inLoop was true; and between
\* calls of loop, whatever path the last one returned by, inLoop is false
C38_ActionsUnlockedInLoop ==
    /\ ~inLoop
    /\ InvokedPIDs(last.ctx) = last.fired
    /\ \A k \in 1..Len(last.ctx) : last.ctx[k].inLoop /\ ~last.ctx[k].locked

\* a loop call in parallel mode invoked two actions, the second one after the
\* critical section taken behind the first had been left
C38_Witness ==
    /\ last.op = "loop" /\ ~sequentialMode
    /\ Len(last.ctx) = 2
    /\ ~inLoop
====
